---- MODULE Spec2Model ----
(***************************************************************************)
(* NoteFlow-Go: the per-project task store (NoteManager over notes.md),     *)
(* the durable task index (DatabaseService over SQLite) and the            *)
(* synchronizer (TaskRegistryService).                                     *)
(*                                                                         *)
(* Text is modelled at character level: a string is a sequence of          *)
(* one-character strings.  "T" stands for a formatted timestamp and "SEP"  *)
(* for the comment "<!-- note -->" of the note separator; neither occurs   *)
(* in note content.                                                        *)
(***************************************************************************)
EXTENDS Integers, Sequences, FiniteSets, TLC

VARIABLES nm, disk, db, noteManagers, last, tx, faults, mu, calls, versions,
          trsMu, fsMu, ops, svc, query

vars == <<nm, disk, db, noteManagers, last, tx, faults, mu, calls, versions,
          trsMu, fsMu, ops, svc, query>>

\* the store's lock and the calls in progress on it
locks == <<mu, calls, versions, trsMu, fsMu, ops, svc, query>>

\* what the callers of one NoteManager leave alone
synchronizer == <<trsMu, fsMu, ops, svc, query>>

----------------------------------------------------------------------------
(* Bounds of the model                                                      *)

MaxNotes == 2
MaxIndex == 2
MaxTaskID == 6
MaxFaults == 1

----------------------------------------------------------------------------
(* Generic helpers                                                          *)

Min(a, b) == IF a < b THEN a ELSE b

Range(s) == {s[i] : i \in 1..Len(s)}

RECURSIVE SumLens(_)
SumLens(ss) == IF ss = <<>> THEN 0 ELSE Len(Head(ss)) + SumLens(Tail(ss))

RECURSIVE Flatten(_)
Flatten(ss) == IF ss = <<>> THEN <<>> ELSE Head(ss) \o Flatten(Tail(ss))

\* the elements of a finite set of integers in increasing order
RECURSIVE SortedSeq(_)
SortedSeq(S) ==
    IF S = {} THEN <<>>
    ELSE LET m == CHOOSE x \in S : \A y \in S : x <= y
         IN  <<m>> \o SortedSeq(S \ {m})

----------------------------------------------------------------------------
(* Strings (package strings)                                                *)

Whitespace == {" ", "\n", "\t"}

HasPrefixAt(s, sub, i) ==
    /\ i >= 1
    /\ i + Len(sub) - 1 <= Len(s)
    /\ SubSeq(s, i, i + Len(sub) - 1) = sub

\* strings.Index, 1-based; 0 when sub does not occur
IndexOf(s, sub) ==
    LET hits == {i \in 1..(Len(s) + 1) : HasPrefixAt(s, sub, i)}
    IN  IF hits = {} THEN 0 ELSE CHOOSE i \in hits : \A j \in hits : i <= j

\* strings.Replace(s, old, new, 1) for a non-empty old
ReplaceFirst(s, old, new) ==
    LET i == IndexOf(s, old)
    IN  IF i = 0 THEN s
        ELSE SubSeq(s, 1, i - 1) \o new \o SubSeq(s, i + Len(old), Len(s))

RECURSIVE TrimLeft(_)
TrimLeft(s) ==
    IF s # <<>> /\ Head(s) \in Whitespace THEN TrimLeft(Tail(s)) ELSE s

RECURSIVE TrimRight(_)
TrimRight(s) ==
    IF s # <<>> /\ s[Len(s)] \in Whitespace
    THEN TrimRight(SubSeq(s, 1, Len(s) - 1))
    ELSE s

TrimSpace(s) == TrimLeft(TrimRight(s))

ToLower(c) == IF c = "X" THEN "x" ELSE c

----------------------------------------------------------------------------
(* Task parser (models.Note)                                                *)

\* the regular expression \[([xX ])\] matches at position i
CheckboxAt(s, i) ==
    /\ i + 2 <= Len(s)
    /\ s[i] = "["
    /\ s[i + 1] \in {"x", "X", " "}
    /\ s[i + 2] = "]"

\* FindAllStringSubmatchIndex: the start of every match, left to right
\* (two matches cannot overlap: a match holds one "[" only, at its start)
CheckboxMatches(s) == SortedSeq({i \in 1..Len(s) : CheckboxAt(s, i)})

\* a text that runs from the marker to the end of the content
extractTaskTextToEnd(content, checkboxPos) ==
    TrimSpace(SubSeq(content, checkboxPos, Len(content)))

extractTaskText(content, checkboxPos) ==
    LET rest    == SubSeq(content, checkboxPos, Len(content))
        nl      == IndexOf(rest, <<"\n">>)
        lineEnd == IF nl = 0 THEN Len(rest) ELSE nl - 1
    IN  TrimSpace(SubSeq(rest, 1, lineEnd))

parseTasks(content) ==
    LET matches == CheckboxMatches(content)
    IN  [i \in 1..Len(matches) |->
            [Index   |-> i - 1,
             Checked |-> ToLower(content[matches[i] + 1]) = "x",
             Text    |-> extractTaskText(content, matches[i])]]

NewNote(title, content) ==
    [Title |-> title, Content |-> content, Tasks |-> parseTasks(content)]

Note_Update(n, title, content) ==
    [Title |-> title, Content |-> content, Tasks |-> parseTasks(content)]

\* position in n.Tasks of the first task carrying taskIndex, 0 when none
TaskPos(n, taskIndex) ==
    LET hits == {k \in 1..Len(n.Tasks) : n.Tasks[k].Index = taskIndex}
    IN  IF hits = {} THEN 0 ELSE CHOOSE k \in hits : \A j \in hits : k <= j

Note_UpdateTask(n, taskIndex, checked) ==
    LET k == TaskPos(n, taskIndex)
    IN  IF k = 0 THEN [found |-> FALSE, note |-> n]
        ELSE LET oldMark == IF checked THEN <<"[", " ", "]">> ELSE <<"[", "x", "]">>
                 newMark == IF checked THEN <<"[", "x", "]">> ELSE <<"[", " ", "]">>
                 oldLine == n.Tasks[k].Text
                 newLine == ReplaceFirst(oldLine, oldMark, newMark)
             IN  [found |-> TRUE,
                  note  |-> [n EXCEPT
                               !.Content = ReplaceFirst(n.Content, oldLine, newLine),
                               !.Tasks[k].Text = newLine,
                               !.Tasks[k].Checked = checked]]

Render(n) ==
    <<"#", "#", " ", "T">>
    \o (IF n.Title # <<>> THEN <<" ", "-", " ">> \o n.Title ELSE <<>>)
    \o <<"\n", "\n">> \o n.Content \o <<"\n">>

NoteSeparator == <<"\n", "SEP", "\n">>

----------------------------------------------------------------------------
(* File storage (storage.FileStorage) over one project folder               *)
(* disk record: dirExists, fileExists (notes.md), file (its text)           *)

RECURSIVE JoinRendered(_)
JoinRendered(notes) ==
    IF notes = <<>> THEN <<>>
    ELSE IF Len(notes) = 1 THEN Render(notes[1])
    ELSE Render(notes[1]) \o NoteSeparator \o JoinRendered(Tail(notes))

\* a save that writes the newest note only
SaveNotesFirstOnly(d, notes, ioOk) ==
    IF d.dirExists /\ ioOk
    THEN [disk |-> [d EXCEPT !.fileExists = TRUE,
                             !.file = IF notes = <<>> THEN <<>> ELSE Render(notes[1])],
          err  |-> FALSE]
    ELSE [disk |-> d, err |-> TRUE]

\* os.WriteFile fails when the folder is gone or on an I/O error (ioOk = FALSE)
SaveNotes(d, notes, ioOk) ==
    IF d.dirExists /\ ioOk
    THEN [disk |-> [d EXCEPT !.fileExists = TRUE, !.file = JoinRendered(notes)],
          err  |-> FALSE]
    ELSE [disk |-> d, err |-> TRUE]

----------------------------------------------------------------------------
(* Project task store (services.NoteManager)                                *)
(* store record: notes, checkboxIndex, needsSave                            *)

TaskCount(notes, lo, hi) == SumLens([i \in 1..(hi - lo + 1) |-> notes[lo + i - 1].Tasks])

\* tasks of the notes at positions >= start get index, index+1, ... in order
Renumber(notes, start, index) ==
    [i \in 1..Len(notes) |->
        IF i < start THEN notes[i]
        ELSE LET base == index + TaskCount(notes, start, i - 1)
                 ts   == notes[i].Tasks
             IN  [notes[i] EXCEPT
                    !.Tasks = [k \in 1..Len(ts) |-> [ts[k] EXCEPT !.Index = base + k - 1]]]]

\* a save that clears the flag whether or not the write succeeded
saveClearsOnError(s, d, ioOk) ==
    IF ~s.needsSave THEN [nm |-> s, disk |-> d, err |-> FALSE]
    ELSE LET w == SaveNotes(d, s.notes, ioOk)
         IN  IF w.err THEN [nm |-> [s EXCEPT !.needsSave = FALSE], disk |-> d,
                            err |-> TRUE]
             ELSE [nm |-> [s EXCEPT !.needsSave = FALSE], disk |-> w.disk, err |-> FALSE]

save(s, d, ioOk) ==
    IF ~s.needsSave THEN [nm |-> s, disk |-> d, err |-> FALSE]
    ELSE LET w == SaveNotes(d, s.notes, ioOk)
         IN  IF w.err THEN [nm |-> s, disk |-> d, err |-> TRUE]
             ELSE [nm |-> [s EXCEPT !.needsSave = FALSE], disk |-> w.disk, err |-> FALSE]

\* a recount that leaves every task's index as it is
assignTaskIndicesKeeps(s) == s

assignTaskIndices(s) ==
    [s EXCEPT !.notes = Renumber(s.notes, 1, 0),
              !.checkboxIndex = TaskCount(s.notes, 1, Len(s.notes))]

reassignTaskIndicesFromNote(s, startNoteIndex) ==
    LET start == startNoteIndex + 1
        index == s.checkboxIndex - TaskCount(s.notes, 1, Min(start - 1, Len(s.notes)))
    IN  [s EXCEPT !.notes = Renumber(s.notes, start, index),
                  !.checkboxIndex = index + TaskCount(s.notes, start, Len(s.notes))]

NM_AddNote(s, d, title, content, ioOk) ==
    LET parsed == NewNote(title, content)
        note   == [parsed EXCEPT
                     !.Tasks = [k \in 1..Len(parsed.Tasks) |->
                                  [parsed.Tasks[k] EXCEPT !.Index = s.checkboxIndex + k - 1]]]
        s1     == [s EXCEPT !.notes = <<note>> \o s.notes,
                            !.checkboxIndex = s.checkboxIndex + Len(parsed.Tasks),
                            !.needsSave = TRUE]
    IN  save(s1, d, ioOk)

NM_UpdateNote(s, d, index, title, content, ioOk) ==
    IF index < 0 \/ index >= Len(s.notes)
    THEN [nm |-> s, disk |-> d, err |-> TRUE]
    ELSE LET oldTaskCount == Len(s.notes[index + 1].Tasks)
             s1 == [s EXCEPT !.notes[index + 1] = Note_Update(@, title, content)]
             s2 == IF Len(s1.notes[index + 1].Tasks) # oldTaskCount
                   THEN reassignTaskIndicesFromNote(s1, index)
                   ELSE s1
         IN  save([s2 EXCEPT !.needsSave = TRUE], d, ioOk)

NM_DeleteNote(s, d, index, ioOk) ==
    IF index < 0 \/ index >= Len(s.notes)
    THEN [nm |-> s, disk |-> d, err |-> TRUE]
    ELSE LET s1 == [s EXCEPT !.notes = SubSeq(s.notes, 1, index)
                                         \o SubSeq(s.notes, index + 2, Len(s.notes))]
             s2 == assignTaskIndices(s1)
         IN  save([s2 EXCEPT !.needsSave = TRUE], d, ioOk)

\* position of the first note holding a task that carries taskIndex, 0 when none
OwnerNote(s, taskIndex) ==
    LET hits == {i \in 1..Len(s.notes) : TaskPos(s.notes[i], taskIndex) # 0}
    IN  IF hits = {} THEN 0 ELSE CHOOSE i \in hits : \A j \in hits : i <= j

\* an updateTask that saves and reports success when no task carries the index
NM_UpdateTaskSavesAnyway(s, d, taskIndex, checked, ioOk) ==
    LET i == OwnerNote(s, taskIndex)
    IN  IF i = 0 THEN save([s EXCEPT !.needsSave = TRUE], d, ioOk)
        ELSE save([s EXCEPT !.notes[i] = Note_UpdateTask(@, taskIndex, checked).note,
                            !.needsSave = TRUE], d, ioOk)

NM_UpdateTask(s, d, taskIndex, checked, ioOk) ==
    LET i == OwnerNote(s, taskIndex)
    IN  IF i = 0 THEN [nm |-> s, disk |-> d, err |-> TRUE]
        ELSE save([s EXCEPT !.notes[i] = Note_UpdateTask(@, taskIndex, checked).note,
                            !.needsSave = TRUE], d, ioOk)

\* a store that always reports unsaved changes
HasChangesAlways(s) == TRUE

HasChanges(s) == s.needsSave

GetAllTasks(s) == Flatten([i \in 1..Len(s.notes) |-> s.notes[i].Tasks])

----------------------------------------------------------------------------
(* Durable task index (services.DatabaseService)                            *)
(* folders rows: id, path, scan_age, active                                 *)
(* tasks rows:   id, folder_id, line_number, content, completed             *)
(* (file_path is the constant "notes.md"; SQLite's foreign keys are off     *)
(* for a connection opened without the pragma, so no insert is refused and  *)
(* no delete cascades by itself)                                            *)

TickSeconds == 30
StaleSeconds == 300

PathOrder == <<"p1", "p2">>

FolderByPath(d, path) == {f \in d.folders : f.path = path}

FolderTasks(d, folderID) == {t \in d.tasks : t.folder_id = folderID}

\* the rows of a folder by line_number, as <<content, completed>> pairs
FolderTaskList(d, folderID) ==
    LET rows == FolderTasks(d, folderID)
        nums == SortedSeq({t.line_number : t \in rows})
    IN  [k \in 1..Len(nums) |->
            LET t == CHOOSE t \in rows : t.line_number = nums[k]
            IN  [content |-> t.content, completed |-> t.completed]]

\* a registration that inserts without looking for the path
DB_RegisterFolderAlwaysInserts(d, folderPath, ok) ==
    IF ~ok THEN [db |-> d, id |-> 0, err |-> TRUE]
    ELSE [db  |-> [d EXCEPT !.folders = @ \cup {[id       |-> d.seqFolders + 1,
                                                 path     |-> folderPath,
                                                 scan_age |-> 0,
                                                 active   |-> TRUE]},
                            !.seqFolders = @ + 1],
          id  |-> d.seqFolders + 1,
          err |-> FALSE]

DB_RegisterFolder(d, folderPath, ok) ==
    LET found == FolderByPath(d, folderPath)
    IN  IF found # {}
        THEN LET f == CHOOSE f \in found : TRUE
             IN  IF f.active THEN [db |-> d, id |-> f.id, err |-> FALSE]
                 ELSE IF ~ok THEN [db |-> d, id |-> 0, err |-> TRUE]
                 ELSE [db  |-> [d EXCEPT !.folders =
                                  (@ \ {f}) \cup {[f EXCEPT !.active = TRUE]}],
                       id  |-> f.id,
                       err |-> FALSE]
        ELSE IF ~ok THEN [db |-> d, id |-> 0, err |-> TRUE]
        ELSE [db  |-> [d EXCEPT !.folders = @ \cup {[id       |-> d.seqFolders + 1,
                                                     path     |-> folderPath,
                                                     scan_age |-> 0,
                                                     active   |-> TRUE]},
                                !.seqFolders = @ + 1],
              id  |-> d.seqFolders + 1,
              err |-> FALSE]

\* the statements of SyncFolderTasks, each on the transaction's working copy w
TxDeleteTasks(w, folderID) ==
    [w EXCEPT !.tasks = {t \in @ : t.folder_id # folderID}]

\* the insert with line numbers counted from 1
TxInsertTaskOneBased(w, folderID, i, task) ==
    [w EXCEPT !.tasks = @ \cup {[id          |-> w.seqTasks + 1,
                                 folder_id   |-> folderID,
                                 line_number |-> i + 1,
                                 content     |-> task.Text,
                                 completed   |-> task.Checked]},
              !.seqTasks = @ + 1]

\* an insert into a table without AUTOINCREMENT: the id is the largest id
\* present plus one
TxInsertTaskRowid(w, folderID, i, task) ==
    LET top == IF w.tasks = {} THEN 0
               ELSE CHOOSE m \in {t.id : t \in w.tasks} : \A t \in w.tasks : t.id <= m
    IN  [w EXCEPT !.tasks = @ \cup {[id          |-> top + 1,
                                     folder_id   |-> folderID,
                                     line_number |-> i,
                                     content     |-> task.Text,
                                     completed   |-> task.Checked]},
                  !.seqTasks = IF top + 1 > @ THEN top + 1 ELSE @]

TxInsertTask(w, folderID, i, task) ==
    [w EXCEPT !.tasks = @ \cup {[id          |-> w.seqTasks + 1,
                                 folder_id   |-> folderID,
                                 line_number |-> i,
                                 content     |-> task.Text,
                                 completed   |-> task.Checked]},
              !.seqTasks = @ + 1]

TxUpdateLastScan(w, folderID) ==
    [w EXCEPT !.folders = {IF f.id = folderID THEN [f EXCEPT !.scan_age = 0] ELSE f
                           : f \in @}]

RECURSIVE TxInsertFrom(_, _, _, _)
TxInsertFrom(w, folderID, tasks, i) ==
    IF i >= Len(tasks) THEN w
    ELSE TxInsertFrom(TxInsertTask(w, folderID, i, tasks[i + 1]), folderID, tasks, i + 1)

\* the whole transaction; a failing statement rolls everything back (ok = FALSE)
SyncFolderTasks(d, folderID, tasks, ok) ==
    IF ok
    THEN [db  |-> TxUpdateLastScan(TxInsertFrom(TxDeleteTasks(d, folderID),
                                                folderID, tasks, 0), folderID),
          err |-> FALSE]
    ELSE [db |-> d, err |-> TRUE]

ActiveFolderSet(d) == {f \in d.folders : f.active}

\* SELECT ... WHERE active = 1 ORDER BY path
GetActiveFolders(d) ==
    LET present == {i \in 1..Len(PathOrder) :
                      \E f \in ActiveFolderSet(d) : f.path = PathOrder[i]}
        order   == SortedSeq(present)
    IN  [k \in 1..Len(order) |->
            CHOOSE f \in ActiveFolderSet(d) : f.path = PathOrder[order[k]]]

\* a GetGlobalTasks that joins tasks with folders whether active or not
GetGlobalTasksAnyFolder(d) ==
    {[id |-> t.id, folder_id |-> t.folder_id, line_number |-> t.line_number,
      content |-> t.content, completed |-> t.completed, folder_path |-> f.path]
     : <<t, f>> \in {<<t, f>> \in d.tasks \X d.folders : t.folder_id = f.id}}

\* the rows GetGlobalTasks returns: tasks joined with their active folder
GetGlobalTasks(d) ==
    {[id |-> t.id, folder_id |-> t.folder_id, line_number |-> t.line_number,
      content |-> t.content, completed |-> t.completed, folder_path |-> f.path]
     : <<t, f>> \in {<<t, f>> \in d.tasks \X d.folders :
                        t.folder_id = f.id /\ f.active}}

UpdateTaskCompletion(d, taskID, completed, ok) ==
    IF ~ok THEN [db |-> d, err |-> TRUE]
    ELSE [db  |-> [d EXCEPT !.tasks = {IF t.id = taskID
                                       THEN [t EXCEPT !.completed = completed]
                                       ELSE t : t \in @}],
          err |-> FALSE]

RemoveFolder(d, folderID, ok) ==
    IF ~ok THEN [db |-> d, err |-> TRUE]
    ELSE [db  |-> [d EXCEPT !.tasks = {t \in @ : t.folder_id # folderID},
                            !.folders = {f \in @ : f.id # folderID}],
          err |-> FALSE]

\* a pass that never re-pulls for age
IsStaleNever(f) == FALSE

\* time.Since(folder.LastScan) > 5*time.Minute
IsStale(f) == f.scan_age > StaleSeconds

\* TickSeconds pass
AgeFolders(d) ==
    [d EXCEPT !.folders = {[f EXCEPT !.scan_age = Min(@ + TickSeconds,
                                                      StaleSeconds + TickSeconds)]
                           : f \in @}]

----------------------------------------------------------------------------
(* State                                                                    *)
(*  nm[p]         the NoteManager of project folder p                       *)
(*  disk[p]       the folder p and its notes.md on disk                     *)
(*  db            the SQLite database: folders, tasks and the AUTOINCREMENT *)
(*                counters.  The clock is kept relative: a folder row holds *)
(*                scan_age = now - last_scan in seconds, capped at the      *)
(*                first tick past the staleness threshold (the code reads   *)
(*                last_scan only in time.Since(LastScan) > 5*time.Minute)   *)
(*  noteManagers  the paths with a handle in TaskRegistryService's map      *)
(*  last          the operation that produced the state, and what it        *)
(*                returned (history, read by the properties only)           *)
(*  tx            the open SyncFolderTasks transaction, if any              *)
(*  faults        the number of I/O failures injected so far                *)
(*  mu            the sync.RWMutex of p1's NoteManager: its writer (0 when  *)
(*                free) and the callers holding it for reading              *)
(*  calls         per concurrent caller, the NoteManager call in progress   *)
(*                and its position in it                                    *)
(*  versions      the task lists the store held whenever no mutation was    *)
(*                in progress (history, read by the properties only)        *)
(*  trsMu         the sync.RWMutex of TaskRegistryService (noteManagers)    *)
(*  fsMu          the sync.RWMutex of p1's FileStorage                      *)
(*  ops           per goroutine of the synchronizer, the operation in       *)
(*                progress, its position and its local variables            *)
(*  svc           the ticker, stopCh, the database handle and the goroutine *)
(*                of startBackgroundSync with the pass it is running        *)
(*  query         a call of GetGlobalTasks: the tables it reads, the        *)
(*                last_updated of every task row, and its response          *)

Paths == {"p1", "p2"}

EmptyStore == [notes |-> <<>>, checkboxIndex |-> 0, needsSave |-> FALSE]

\* NewNoteManager on a fresh folder: EnsureDirectories, LoadNotes creates notes.md
FreshDisk == [dirExists |-> TRUE, fileExists |-> TRUE, file |-> <<>>]

EmptyDB == [folders |-> {}, tasks |-> {}, seqFolders |-> 0, seqTasks |-> 0]

\* no transaction has run yet
NoTx == [open |-> FALSE, pc |-> "idle", folderID |-> 0, tasks |-> <<>>, i |-> 0,
         w |-> EmptyDB, before |-> EmptyDB]

\* a sync.RWMutex nobody holds: w its writer (0 when none), r its readers
Unlocked == [w |-> 0, r |-> {}]

\* the goroutines of the synchronizer, one per operation
Operation == <<"RegisterFolder", "Tick", "ForceSync", "UpdateGlobalTaskCompletion",
               "AddNote">>

Goroutines == 1..Len(Operation)

NoOp == [pc |-> "idle", folders |-> <<>>, staged |-> {}, snapshot |-> <<>>,
         id |-> 0, path |-> "", content |-> <<>>, completed |-> FALSE,
         dirty |-> FALSE, stale |-> FALSE, exists |-> FALSE, taskIndex |-> 0,
         indexWritten |-> FALSE]

\* no call of GetGlobalTasks yet
NoQuery == [pc |-> "idle", db |-> EmptyDB, last_updated |-> <<>>,
            resp |-> [Tasks |-> <<>>, Total |-> 0]]

\* NewTaskRegistryService: the database is open, the ticker runs, the
\* goroutine of startBackgroundSync waits in its select
Started == [stopped |-> FALSE, stopCh |-> FALSE, dbClosed |-> FALSE, returned |-> FALSE,
            tick |-> FALSE, loop |-> "select", pc |-> "", folders |-> <<>>,
            staged |-> {}, id |-> 0, snapshot |-> <<>>]

\* the goroutines calling into p1's NoteManager: two that mutate, one that reads
Mutators == {1, 2}

Readers == {3}

Callers == Mutators \cup Readers

NoCall == [pc |-> "idle", op |-> "", content |-> <<>>, taskIndex |-> 0,
           checked |-> FALSE, note |-> NewNote(<<>>, <<>>), snapshot |-> <<>>,
           err |-> FALSE]

NoLast == [op |-> "init", path |-> "", ok |-> TRUE, id |-> 0, hit |-> 0,
           found |-> "", synced |-> {}, staged |-> {}, removed |-> {}]

Init ==
    /\ nm = [p \in Paths |-> EmptyStore]
    /\ disk = [p \in Paths |-> FreshDisk]
    /\ db = EmptyDB
    /\ noteManagers = {}
    /\ last = NoLast
    /\ tx = NoTx
    /\ faults = 0
    /\ mu = [w |-> 0, r |-> {}]
    /\ calls = [c \in Callers |-> NoCall]
    /\ versions = {<<>>}
    /\ trsMu = Unlocked
    /\ fsMu = Unlocked
    /\ ops = [g \in Goroutines |-> NoOp]
    /\ svc = Started
    /\ query = NoQuery

----------------------------------------------------------------------------
(* Inputs                                                                   *)

Unchecked == <<"[", " ", "]">>
CheckedLower == <<"[", "x", "]">>
CheckedUpper == <<"[", "X", "]">>

\* a markdown list item "- <mark> <word>"
Item(mark, word) == <<"-", " ">> \o mark \o <<" ", word>>

TwoLines(l1, l2) == l1 \o <<"\n">> \o l2

StoreTitles == {<<>>}

StoreContents ==
    { <<"a">>,
      Item(Unchecked, "a"),
      Item(CheckedUpper, "a"),
      TwoLines(Item(Unchecked, "a"), Item(Unchecked, "a")) }

\* the indices carried by some task, and two that may be carried by none
TaskIndexInputs(s) ==
    {t.Index : t \in Range(GetAllTasks(s))} \cup {-1, Len(GetAllTasks(s))}

IndexInBounds(s) == s.checkboxIndex >= -MaxIndex /\ s.checkboxIndex <= MaxIndex

\* an operation's I/O may fail while the budget of injected failures lasts
IoOutcomes == IF faults < MaxFaults THEN {TRUE, FALSE} ELSE {TRUE}

CountFault(ioOk) == faults' = IF ioOk THEN faults ELSE faults + 1

----------------------------------------------------------------------------
(* Operations of one project task store                                     *)

AddNote(p, title, content, ioOk) ==
    /\ LET r == NM_AddNote(nm[p], disk[p], title, content, ioOk)
       IN  /\ nm' = [nm EXCEPT ![p] = r.nm]
           /\ disk' = [disk EXCEPT ![p] = r.disk]
           /\ last' = [NoLast EXCEPT !.op = "AddNote", !.path = p, !.ok = ~r.err]
    /\ CountFault(ioOk)
    /\ UNCHANGED <<db, noteManagers, tx, locks>>

UpdateNote(p, index, title, content, ioOk) ==
    /\ LET r == NM_UpdateNote(nm[p], disk[p], index, title, content, ioOk)
       IN  /\ nm' = [nm EXCEPT ![p] = r.nm]
           /\ disk' = [disk EXCEPT ![p] = r.disk]
           /\ last' = [NoLast EXCEPT !.op = "UpdateNote", !.path = p, !.ok = ~r.err]
    /\ CountFault(ioOk)
    /\ UNCHANGED <<db, noteManagers, tx, locks>>

DeleteNote(p, index, ioOk) ==
    /\ LET r == NM_DeleteNote(nm[p], disk[p], index, ioOk)
       IN  /\ nm' = [nm EXCEPT ![p] = r.nm]
           /\ disk' = [disk EXCEPT ![p] = r.disk]
           /\ last' = [NoLast EXCEPT !.op = "DeleteNote", !.path = p, !.ok = ~r.err]
    /\ CountFault(ioOk)
    /\ UNCHANGED <<db, noteManagers, tx, locks>>

UpdateTask(p, taskIndex, checked, ioOk) ==
    /\ LET r == NM_UpdateTask(nm[p], disk[p], taskIndex, checked, ioOk)
       IN  /\ nm' = [nm EXCEPT ![p] = r.nm]
           /\ disk' = [disk EXCEPT ![p] = r.disk]
           /\ last' = [NoLast EXCEPT !.op = "UpdateTask", !.path = p, !.ok = ~r.err]
    /\ CountFault(ioOk)
    /\ UNCHANGED <<db, noteManagers, tx, locks>>

----------------------------------------------------------------------------
(* Synchronizer (services.TaskRegistryService)                              *)

\* an injected failure: which index operation of the handler fails
NoFault == [kind |-> "none", id |-> 0]

Fault(kind, id) == [kind |-> kind, id |-> id]

\* a validation that finds every project missing
validateFolderNever(d) == FALSE

\* a validation that looks at the folder only
validateFolderDirOnly(d) == d.dirExists

validateFolder(d) == d.dirExists /\ d.fileExists

\* a sync that pulls nothing from the store
syncFolderTasksEmpty(d, folderID, store, ok) ==
    SyncFolderTasks(d, folderID, <<>>, ok)

syncFolderTasks(d, folderID, store, ok) ==
    SyncFolderTasks(d, folderID, GetAllTasks(store), ok)

\* a loop that returns at the first sync that fails
RECURSIVE SyncLoopAborts(_, _, _, _)
SyncLoopAborts(d, folders, force, fault) ==
    IF folders = <<>> THEN [db |-> d, synced |-> {}, staged |-> {}]
    ELSE LET folder == Head(folders)
             rest(d1) == SyncLoopAborts(d1, Tail(folders), force, fault)
         IN  IF ~validateFolder(disk[folder.path])
             THEN [rest(d) EXCEPT !.staged = @ \cup {folder.id}]
             ELSE IF folder.path \notin noteManagers THEN rest(d)
             ELSE IF force \/ HasChanges(nm[folder.path]) \/ IsStale(folder)
             THEN LET r == syncFolderTasks(d, folder.id, nm[folder.path],
                                           fault # Fault("sync", folder.id))
                  IN  IF r.err THEN [db |-> d, synced |-> {}, staged |-> {}]
                      ELSE [rest(r.db) EXCEPT !.synced = @ \cup {folder.id}]
             ELSE rest(d)

\* a loop that syncs from the project's store whether or not the running
\* service holds a handle to it
RECURSIVE SyncLoopAnyStore(_, _, _, _)
SyncLoopAnyStore(d, folders, force, fault) ==
    IF folders = <<>> THEN [db |-> d, synced |-> {}, staged |-> {}]
    ELSE LET folder == Head(folders)
             rest(d1) == SyncLoopAnyStore(d1, Tail(folders), force, fault)
         IN  IF ~validateFolder(disk[folder.path])
             THEN [rest(d) EXCEPT !.staged = @ \cup {folder.id}]
             ELSE IF force \/ HasChanges(nm[folder.path]) \/ IsStale(folder)
             THEN LET r == syncFolderTasks(d, folder.id, nm[folder.path],
                                           fault # Fault("sync", folder.id))
                  IN  IF r.err THEN rest(d)
                      ELSE [rest(r.db) EXCEPT !.synced = @ \cup {folder.id}]
             ELSE rest(d)

\* the loop over the active folders of performBackgroundSync (force = FALSE)
\* and of ForceSync (force = TRUE)
RECURSIVE SyncLoop(_, _, _, _)
SyncLoop(d, folders, force, fault) ==
    IF folders = <<>> THEN [db |-> d, synced |-> {}, staged |-> {}]
    ELSE LET folder == Head(folders)
             rest(d1) == SyncLoop(d1, Tail(folders), force, fault)
         IN  IF ~validateFolder(disk[folder.path])
             THEN [rest(d) EXCEPT !.staged = @ \cup {folder.id}]
             ELSE IF folder.path \notin noteManagers THEN rest(d)
             ELSE IF force \/ HasChanges(nm[folder.path]) \/ IsStale(folder)
             THEN LET r == syncFolderTasks(d, folder.id, nm[folder.path],
                                           fault # Fault("sync", folder.id))
                  IN  IF r.err THEN rest(d)
                      ELSE [rest(r.db) EXCEPT !.synced = @ \cup {folder.id}]
             ELSE rest(d)

RECURSIVE RemoveStaged(_, _, _)
RemoveStaged(d, ids, fault) ==
    IF ids = {} THEN [db |-> d, removed |-> {}]
    ELSE LET id == CHOOSE i \in ids : \A j \in ids : i <= j
             r  == RemoveFolder(d, id, fault # Fault("remove", id))
             nx == RemoveStaged(r.db, ids \ {id}, fault)
         IN  IF r.err THEN nx ELSE [nx EXCEPT !.removed = @ \cup {id}]

SyncPass(d, force, fault) ==
    IF fault.kind = "list"
    THEN [db |-> d, synced |-> {}, staged |-> {}, removed |-> {}, err |-> TRUE]
    ELSE CHOOSE pass \in
             {[db |-> r.db, synced |-> l.synced, staged |-> l.staged,
               removed |-> r.removed, err |-> FALSE] :
                  <<l, r>> \in {<<l, RemoveStaged(l.db, l.staged, fault)>> :
                                   l \in {SyncLoop(d, GetActiveFolders(d), force, fault)}}}
             : TRUE

performBackgroundSync(d, fault) == SyncPass(d, FALSE, fault)

\* a forced pass that applies the rules of the scheduled pass
ForceSyncPassLikeTick(d, fault) == SyncPass(d, FALSE, fault)

ForceSyncPass(d, fault) == SyncPass(d, TRUE, fault)

\* the failures a pass can meet: the folder query, a sync it attempts, a removal
PassFaults(d, force) ==
    LET clean == SyncPass(d, force, NoFault)
    IN  {Fault("list", 0)} \cup {Fault("sync", id) : id \in clean.synced}
                           \cup {Fault("remove", id) : id \in clean.staged}

\* a match on the text behind the marker, whatever the marker
TextMatchAnyMarker(store, content) ==
    LET ts   == GetAllTasks(store)
        rest(t) == SubSeq(t, 4, Len(t))
        hits == {k \in 1..Len(ts) : rest(ts[k].Text) = rest(content)}
    IN  IF hits = {} THEN 0 ELSE CHOOSE k \in hits : \A j \in hits : k <= j

\* position in GetAllTasks of the first task whose text is content, 0 when none
TextMatch(store, content) ==
    LET ts   == GetAllTasks(store)
        hits == {k \in 1..Len(ts) : ts[k].Text = content}
    IN  IF hits = {} THEN 0 ELSE CHOOSE k \in hits : \A j \in hits : k <= j

FaultChoices(S) == IF faults < MaxFaults THEN {NoFault} \cup S ELSE {NoFault}

CountFaultKind(fault) == faults' = IF fault = NoFault THEN faults ELSE faults + 1

\* what the index holds for the path: no row, an active row, an inactive row
RowState(d, path) ==
    IF FolderByPath(d, path) = {} THEN "none"
    ELSE IF \E f \in FolderByPath(d, path) : f.active THEN "active" ELSE "inactive"

\* a registration that stores the note manager before the index answers
RegisterFolderMapsFirst(p, fault) ==
    LET r1 == DB_RegisterFolder(db, p, fault.kind # "register")
    IN  /\ noteManagers' = noteManagers \cup {p}
        /\ IF r1.err
           THEN /\ UNCHANGED db
                /\ last' = [NoLast EXCEPT !.op = "RegisterFolder", !.path = p,
                                          !.ok = FALSE]
           ELSE LET r2 == syncFolderTasks(r1.db, r1.id, nm[p], fault.kind # "sync")
                IN  /\ db' = r2.db
                    /\ last' = [NoLast EXCEPT !.op = "RegisterFolder", !.path = p,
                                              !.id = r1.id, !.found = RowState(db, p),
                                              !.synced = IF r2.err THEN {} ELSE {r1.id}]
        /\ CountFaultKind(fault)
        /\ UNCHANGED <<nm, disk, tx, locks>>

RegisterFolder(p, fault) ==
    LET r1 == DB_RegisterFolder(db, p, fault.kind # "register")
    IN  /\ IF r1.err
           THEN /\ UNCHANGED <<db, noteManagers>>
                /\ last' = [NoLast EXCEPT !.op = "RegisterFolder", !.path = p,
                                          !.ok = FALSE]
           ELSE LET r2 == syncFolderTasks(r1.db, r1.id, nm[p], fault.kind # "sync")
                IN  /\ db' = r2.db
                    /\ noteManagers' = noteManagers \cup {p}
                    /\ last' = [NoLast EXCEPT !.op = "RegisterFolder", !.path = p,
                                              !.id = r1.id, !.found = RowState(db, p),
                                              !.synced = IF r2.err THEN {} ELSE {r1.id}]
        /\ CountFaultKind(fault)
        /\ UNCHANGED <<nm, disk, tx, locks>>

UpdateGlobalTaskCompletion(taskID, completed, fault) ==
    LET found == {t \in GetGlobalTasks(db) : t.id = taskID}
        failed(p) == /\ UNCHANGED <<nm, disk, db>>
                     /\ last' = [NoLast EXCEPT !.op = "UpdateGlobalTaskCompletion",
                                    !.path = p, !.ok = FALSE]
    IN  /\ IF fault.kind = "list" \/ found = {} THEN failed("")
           ELSE LET targetTask == CHOOSE t \in found : TRUE
                    path == targetTask.folder_path
                    u == UpdateTaskCompletion(db, taskID, completed,
                                              fault.kind # "update")
                    k == IF path \in noteManagers
                         THEN TextMatch(nm[path], targetTask.content) ELSE 0
                IN  IF u.err THEN failed(path)
                    ELSE /\ db' = u.db
                         /\ IF k = 0 THEN UNCHANGED <<nm, disk>>
                            ELSE LET r == NM_UpdateTask(nm[path], disk[path],
                                                        GetAllTasks(nm[path])[k].Index,
                                                        completed, fault.kind # "io")
                                 IN  /\ nm' = [nm EXCEPT ![path] = r.nm]
                                     /\ disk' = [disk EXCEPT ![path] = r.disk]
                         /\ last' = [NoLast EXCEPT !.op = "UpdateGlobalTaskCompletion",
                                        !.path = path, !.id = taskID, !.hit = k]
        /\ CountFaultKind(fault)
        /\ UNCHANGED <<noteManagers, tx, locks>>

\* the ticker fires: TickSeconds have passed since the previous tick
Tick(fault) ==
    \E r \in {performBackgroundSync(AgeFolders(db), fault)} :
        /\ db' = r.db
        /\ last' = [NoLast EXCEPT !.op = "Tick", !.ok = ~r.err, !.synced = r.synced,
                                  !.staged = r.staged, !.removed = r.removed]
        /\ CountFaultKind(fault)
        /\ UNCHANGED <<nm, disk, noteManagers, tx, locks>>

ForceSync(fault) ==
    LET r == ForceSyncPass(db, fault)
    IN  /\ db' = r.db
        /\ last' = [NoLast EXCEPT !.op = "ForceSync", !.ok = ~r.err, !.synced = r.synced,
                                  !.staged = r.staged, !.removed = r.removed]
        /\ CountFaultKind(fault)
        /\ UNCHANGED <<nm, disk, noteManagers, tx, locks>>

----------------------------------------------------------------------------
(* The file system outside the program                                      *)

RemoveFolderOnDisk(p) ==
    /\ disk[p].dirExists
    /\ disk' = [disk EXCEPT ![p] = [dirExists |-> FALSE, fileExists |-> FALSE,
                                    file |-> <<>>]]
    /\ last' = [NoLast EXCEPT !.op = "RemoveFolderOnDisk", !.path = p]
    /\ UNCHANGED <<nm, db, noteManagers, tx, faults, locks>>

\* tasks.db is a file shared with other programs: one of them marks the
\* folder's row inactive (folders.active)
DeactivateFolder(p) ==
    /\ \E f \in ActiveFolderSet(db) : f.path = p
    /\ db' = [db EXCEPT !.folders = {IF f.path = p THEN [f EXCEPT !.active = FALSE]
                                     ELSE f : f \in @}]
    /\ last' = [NoLast EXCEPT !.op = "DeactivateFolder", !.path = p]
    /\ UNCHANGED <<nm, disk, noteManagers, tx, faults, locks>>

RemoveNotesFile(p) ==
    /\ disk[p].fileExists
    /\ disk' = [disk EXCEPT ![p].fileExists = FALSE, ![p].file = <<>>]
    /\ last' = [NoLast EXCEPT !.op = "RemoveNotesFile", !.path = p]
    /\ UNCHANGED <<nm, db, noteManagers, tx, faults, locks>>

----------------------------------------------------------------------------
(* SpecStore: one project task store under every sequence of its mutations, *)
(* every write of notes.md succeeding                                       *)

StoreNext ==
    \/ /\ Len(nm["p1"].notes) < MaxNotes
       /\ IndexInBounds(nm["p1"])
       /\ \E title \in StoreTitles, content \in StoreContents :
             AddNote("p1", title, content, TRUE)
    \/ /\ IndexInBounds(nm["p1"])
       /\ \E index \in -1..Len(nm["p1"].notes),
             title \in StoreTitles, content \in StoreContents :
             UpdateNote("p1", index, title, content, TRUE)
    \/ \E index \in -1..Len(nm["p1"].notes) :
          DeleteNote("p1", index, TRUE)
    \/ \E taskIndex \in TaskIndexInputs(nm["p1"]), checked \in BOOLEAN :
          UpdateTask("p1", taskIndex, checked, TRUE)

SpecStore == Init /\ [][StoreNext]_vars

----------------------------------------------------------------------------
(* Spec: one project, its store, the index and the synchronizer under       *)
(* mutations, completion toggles from both sides and forced syncs; every    *)
(* handler is one step                                                      *)

MaxSyncNotes == 1

SyncContents ==
    { Item(Unchecked, "a"),
      Item(CheckedUpper, "a"),
      TwoLines(Item(Unchecked, "a"), Item(CheckedLower, "b")) }

\* AUTOINCREMENT ids stay within the bound
IdsInBounds == db'.seqTasks <= MaxTaskID

TaskIdInputs == 1..(db.seqTasks + 1)

Next ==
    \/ /\ "p1" \notin noteManagers
       /\ \E fault \in FaultChoices({Fault("register", 0), Fault("sync", 0)}) :
             RegisterFolder("p1", fault) /\ IdsInBounds
    \/ /\ Len(nm["p1"].notes) < MaxSyncNotes
       /\ IndexInBounds(nm["p1"])
       /\ \E content \in SyncContents, ioOk \in IoOutcomes :
             AddNote("p1", <<>>, content, ioOk)
    \/ /\ IndexInBounds(nm["p1"])
       /\ \E index \in 0..Len(nm["p1"].notes), content \in SyncContents,
             ioOk \in IoOutcomes :
             UpdateNote("p1", index, <<>>, content, ioOk)
    \/ \E index \in 0..Len(nm["p1"].notes), ioOk \in IoOutcomes :
          DeleteNote("p1", index, ioOk)
    \/ \E taskIndex \in TaskIndexInputs(nm["p1"]), checked \in BOOLEAN,
          ioOk \in IoOutcomes :
          UpdateTask("p1", taskIndex, checked, ioOk)
    \/ \E taskID \in TaskIdInputs, completed \in BOOLEAN,
          fault \in FaultChoices({Fault("list", 0), Fault("update", 0), Fault("io", 0)}) :
          UpdateGlobalTaskCompletion(taskID, completed, fault)
    \/ \E fault \in FaultChoices(PassFaults(db, TRUE)) :
          ForceSync(fault) /\ IdsInBounds

Spec == Init /\ [][Next]_vars

----------------------------------------------------------------------------
(* SpecTick: one project under the scheduled tick, with the folder and its  *)
(* notes.md disappearing from disk                                          *)

TickContents ==
    { Item(Unchecked, "a"),
      TwoLines(Item(Unchecked, "a"), Item(CheckedLower, "b")) }

TickNext ==
    \/ /\ "p1" \notin noteManagers
       /\ \E fault \in FaultChoices({Fault("register", 0), Fault("sync", 0)}) :
             RegisterFolder("p1", fault) /\ IdsInBounds
    \/ /\ Len(nm["p1"].notes) < MaxSyncNotes
       /\ IndexInBounds(nm["p1"])
       /\ \E content \in TickContents, ioOk \in IoOutcomes :
             AddNote("p1", <<>>, content, ioOk)
    \/ \E taskIndex \in TaskIndexInputs(nm["p1"]), checked \in BOOLEAN,
          ioOk \in IoOutcomes :
          UpdateTask("p1", taskIndex, checked, ioOk)
    \/ \E fault \in FaultChoices(PassFaults(AgeFolders(db), FALSE)) :
          Tick(fault) /\ IdsInBounds
    \/ RemoveFolderOnDisk("p1")
    \/ RemoveNotesFile("p1")

SpecTick == Init /\ [][TickNext]_vars

----------------------------------------------------------------------------
(* SpecTx: DatabaseService.SyncFolderTasks statement by statement.          *)
(*  db            the committed index, what every other connection reads    *)
(*  tx.w          the working copy of the open transaction                  *)
(*  tx.pc         the next statement of SyncFolderTasks                     *)
(*  tx.before     the committed index when SyncFolderTasks was called       *)
(* SQLite admits one writer: the other index writers wait while tx.open.    *)

\* tx.Commit(): the working copy becomes the committed index
Commit(d, t) == t.w

\* statements run outside the transaction: an error leaves what was written
RollbackKeepsWrites(d, t) == t.w

\* the deferred tx.Rollback() after an error: the working copy is dropped
Rollback(d, t) == d

SyncReturn(ok) ==
    last' = [NoLast EXCEPT !.op = "SyncFolderTasks", !.ok = ok, !.id = tx.folderID,
                           !.synced = IF ok THEN {tx.folderID} ELSE {}]

\* a statement of the open transaction failed: return through the rollback
SyncFailed ==
    /\ db' = Rollback(db, tx)
    /\ tx' = [tx EXCEPT !.open = FALSE]
    /\ SyncReturn(FALSE)

\* syncFolderTasks(folderID, folderPath, noteManager) calls SyncFolderTasks with
\* the store's tasks; ds.db.Begin()
SyncBegin(p, ok) ==
    /\ ~tx.open
    /\ p \in noteManagers
    /\ \E f \in ActiveFolderSet(db) :
          /\ f.path = p
          /\ LET t == [open |-> ok, pc |-> "delete", folderID |-> f.id,
                       tasks |-> GetAllTasks(nm[p]), i |-> 0, w |-> db,
                       before |-> db]
             IN  /\ db.seqTasks + Len(t.tasks) <= MaxTaskID
                 /\ tx' = t
                 /\ IF ok THEN UNCHANGED last
                    ELSE last' = [NoLast EXCEPT !.op = "SyncFolderTasks",
                                                !.ok = FALSE, !.id = f.id]
    /\ CountFault(ok)
    /\ UNCHANGED <<nm, disk, db, noteManagers, locks>>

\* DELETE FROM tasks WHERE folder_id = ?
SyncDelete(ok) ==
    /\ tx.open /\ tx.pc = "delete"
    /\ IF ok
       THEN /\ tx' = [tx EXCEPT !.w = TxDeleteTasks(@, tx.folderID), !.pc = "prepare"]
            /\ UNCHANGED <<db, last>>
       ELSE SyncFailed
    /\ CountFault(ok)
    /\ UNCHANGED <<nm, disk, noteManagers, locks>>

\* tx.Prepare(INSERT INTO tasks ...)
SyncPrepare(ok) ==
    /\ tx.open /\ tx.pc = "prepare"
    /\ IF ok
       THEN /\ tx' = [tx EXCEPT !.pc = IF tx.tasks = <<>> THEN "scan" ELSE "insert"]
            /\ UNCHANGED <<db, last>>
       ELSE SyncFailed
    /\ CountFault(ok)
    /\ UNCHANGED <<nm, disk, noteManagers, locks>>

\* stmt.Exec(folderID, "notes.md", i, task.Text, task.Checked, now)
SyncInsert(ok) ==
    /\ tx.open /\ tx.pc = "insert"
    /\ IF ok
       THEN /\ tx' = [tx EXCEPT !.w = TxInsertTask(@, tx.folderID, tx.i,
                                                   tx.tasks[tx.i + 1]),
                                !.i = @ + 1,
                                !.pc = IF tx.i + 1 >= Len(tx.tasks)
                                       THEN "scan" ELSE "insert"]
            /\ UNCHANGED <<db, last>>
       ELSE SyncFailed
    /\ CountFault(ok)
    /\ UNCHANGED <<nm, disk, noteManagers, locks>>

\* UPDATE folders SET last_scan = ? WHERE id = ?
SyncUpdateLastScan(ok) ==
    /\ tx.open /\ tx.pc = "scan"
    /\ IF ok
       THEN /\ tx' = [tx EXCEPT !.w = TxUpdateLastScan(@, tx.folderID),
                                !.pc = "commit"]
            /\ UNCHANGED <<db, last>>
       ELSE SyncFailed
    /\ CountFault(ok)
    /\ UNCHANGED <<nm, disk, noteManagers, locks>>

\* return tx.Commit()
SyncCommit(ok) ==
    /\ tx.open /\ tx.pc = "commit"
    /\ IF ok
       THEN /\ db' = Commit(db, tx)
            /\ tx' = NoTx
            /\ SyncReturn(TRUE)
       ELSE SyncFailed
    /\ CountFault(ok)
    /\ UNCHANGED <<nm, disk, noteManagers, locks>>

\* the ticks SpecTx lets pass since a project's last scan, in seconds
MaxTxAge == 60

TxContents == { TwoLines(Item(Unchecked, "a"), Item(CheckedLower, "b")) }

TxNext ==
    \/ /\ "p1" \notin noteManagers /\ ~tx.open
       /\ RegisterFolder("p1", NoFault) /\ IdsInBounds
    \/ /\ Len(nm["p1"].notes) < MaxSyncNotes
       /\ IndexInBounds(nm["p1"])
       /\ \E content \in TxContents : AddNote("p1", <<>>, content, TRUE)
    \/ \E taskIndex \in TaskIndexInputs(nm["p1"]), checked \in BOOLEAN :
          UpdateTask("p1", taskIndex, checked, TRUE)
    \/ /\ ~tx.open
       /\ \A f \in db.folders : f.scan_age < MaxTxAge
       /\ Tick(NoFault) /\ IdsInBounds
    \/ \E ok \in IoOutcomes : SyncBegin("p1", ok)
    \/ \E ok \in IoOutcomes : SyncDelete(ok)
    \/ \E ok \in IoOutcomes : SyncPrepare(ok)
    \/ \E ok \in IoOutcomes : SyncInsert(ok)
    \/ \E ok \in IoOutcomes : SyncUpdateLastScan(ok)
    \/ \E ok \in IoOutcomes : SyncCommit(ok)

SpecTx == Init /\ [][TxNext]_vars

----------------------------------------------------------------------------
(* SpecLive: one project under mutations, toggles and the scheduled tick;   *)
(* the ticker goroutine runs performBackgroundSync at every tick, which is  *)
(* weak fairness of the tick                                                *)

\* a change is made only while the ids left allow the sync that picks it up
SyncFits == db'.seqTasks + Len(GetAllTasks(nm'["p1"])) <= MaxTaskID

LiveContents == { Item(Unchecked, "a") }

LiveTick ==
    \E fault \in FaultChoices({Fault("list", 0)}) : Tick(fault) /\ IdsInBounds

LiveNext ==
    \/ /\ "p1" \notin noteManagers
       /\ \E fault \in FaultChoices({Fault("register", 0), Fault("sync", 0)}) :
             RegisterFolder("p1", fault) /\ IdsInBounds
    \/ /\ Len(nm["p1"].notes) < MaxSyncNotes
       /\ IndexInBounds(nm["p1"])
       /\ \E content \in LiveContents, ioOk \in IoOutcomes :
             AddNote("p1", <<>>, content, ioOk) /\ SyncFits
    \/ \E taskIndex \in TaskIndexInputs(nm["p1"]), checked \in BOOLEAN,
          ioOk \in IoOutcomes :
          UpdateTask("p1", taskIndex, checked, ioOk) /\ SyncFits
    \/ \E taskID \in TaskIdInputs, completed \in BOOLEAN :
          UpdateGlobalTaskCompletion(taskID, completed, NoFault) /\ SyncFits
    \/ LiveTick
    \/ RemoveNotesFile("p1")

SpecLive == Init /\ [][LiveNext]_vars /\ WF_vars(LiveTick)

----------------------------------------------------------------------------
(* SpecReg: two project folders, their stores empty, registered again and   *)
(* again, rows made inactive from outside, projects removed by the tick     *)

MaxFolderID == 3

RegNext ==
    \/ \E p \in Paths,
          fault \in FaultChoices({Fault("register", 0), Fault("sync", 0)}) :
          /\ RegisterFolder(p, fault)
          /\ IdsInBounds
          /\ db'.seqFolders <= MaxFolderID
    \/ \E p \in Paths : DeactivateFolder(p)
    \/ \E p \in Paths : RemoveNotesFile(p)
    \/ \E fault \in FaultChoices({Fault("list", 0)}) : Tick(fault) /\ IdsInBounds

SpecReg == Init /\ [][RegNext]_vars

----------------------------------------------------------------------------
(* SpecToggle: one project whose row in tasks.db goes inactive and is        *)
(* registered again, with toggles of present and absent task ids            *)

ToggleNext ==
    \/ RegisterFolder("p1", NoFault) /\ IdsInBounds
    \/ /\ Len(nm["p1"].notes) < MaxSyncNotes
       /\ \E content \in SyncContents : AddNote("p1", <<>>, content, TRUE)
    \/ DeactivateFolder("p1")
    \/ \E taskID \in TaskIdInputs, completed \in BOOLEAN,
          fault \in FaultChoices({Fault("list", 0)}) :
          UpdateGlobalTaskCompletion(taskID, completed, fault)
    \/ Tick(NoFault) /\ IdsInBounds

SpecToggle == Init /\ [][ToggleNext]_vars

----------------------------------------------------------------------------
(* SpecPass: two projects with their stores under scheduled ticks and       *)
(* forced syncs, a sync of either project failing, notes.md disappearing    *)

PassNext ==
    \/ \E p \in Paths :
          /\ p \notin noteManagers
          /\ RegisterFolder(p, NoFault) /\ IdsInBounds
    \/ \E p \in Paths :
          /\ Len(nm[p].notes) < MaxSyncNotes
          /\ IndexInBounds(nm[p])
          /\ \E content \in LiveContents : AddNote(p, <<>>, content, TRUE)
    \/ \E fault \in FaultChoices(PassFaults(AgeFolders(db), FALSE)) :
          Tick(fault) /\ IdsInBounds
    \/ \E fault \in FaultChoices(PassFaults(db, TRUE)) :
          ForceSync(fault) /\ IdsInBounds
    \/ \E p \in Paths : RemoveNotesFile(p)

SpecPass == Init /\ [][PassNext]_vars

----------------------------------------------------------------------------
(* SpecLock: concurrent callers of p1's NoteManager, statement by           *)
(* statement: AddNote and UpdateTask under nm.mu.Lock(), GetAllTasks under  *)
(* nm.mu.RLock(), the deferred unlock running when the call returns         *)

AddNoting == {c \in Callers : calls[c].op = "AddNote" /\ calls[c].pc \in {"lock", "indices", "prepend"}}

\* a caller enters AddNote
CallAddNote(c, content) ==
    /\ calls[c].pc = "idle"
    /\ Len(nm["p1"].notes) + Cardinality(AddNoting) < MaxNotes
    /\ calls' = [calls EXCEPT ![c] = [NoCall EXCEPT !.pc = "lock", !.op = "AddNote",
                                                    !.content = content]]
    /\ UNCHANGED <<nm, disk, db, noteManagers, last, tx, faults, mu, versions, synchronizer>>

\* a caller enters UpdateTask
CallUpdateTask(c, taskIndex, checked) ==
    /\ calls[c].pc = "idle"
    /\ calls' = [calls EXCEPT ![c] = [NoCall EXCEPT !.pc = "lock", !.op = "UpdateTask",
                                                    !.taskIndex = taskIndex,
                                                    !.checked = checked]]
    /\ UNCHANGED <<nm, disk, db, noteManagers, last, tx, faults, mu, versions, synchronizer>>

\* a caller enters GetAllTasks
CallGetAllTasks(c) ==
    /\ calls[c].pc = "idle"
    /\ calls' = [calls EXCEPT ![c] = [NoCall EXCEPT !.pc = "rlock", !.op = "GetAllTasks"]]
    /\ UNCHANGED <<nm, disk, db, noteManagers, last, tx, faults, mu, versions, synchronizer>>

\* nm.mu.RLock(): granted while no writer holds the lock
NM_RLock(c) ==
    /\ calls[c].pc \in {"lock", "rlock"}
    /\ mu.w = 0
    /\ mu' = [mu EXCEPT !.r = @ \cup {c}]
    /\ calls' = [calls EXCEPT ![c].pc = CASE calls[c].op = "AddNote"    -> "indices"
                                          [] calls[c].op = "UpdateTask" -> "text"
                                          [] OTHER                      -> "copy"]
    /\ UNCHANGED <<nm, disk, db, noteManagers, last, tx, faults, versions, synchronizer>>

\* a mutation that takes the lock for reading
NM_LockShared(c) ==
    /\ calls[c].pc = "lock"
    /\ NM_RLock(c)

\* nm.mu.Lock(): granted while nobody holds the lock
NM_Lock(c) ==
    /\ calls[c].pc = "lock"
    /\ mu.w = 0 /\ mu.r = {}
    /\ mu' = [mu EXCEPT !.w = c]
    /\ calls' = [calls EXCEPT ![c].pc = IF calls[c].op = "AddNote" THEN "indices"
                                        ELSE "text"]
    /\ UNCHANGED <<nm, disk, db, noteManagers, last, tx, faults, versions, synchronizer>>

\* AddNote: NewNote, then each task takes nm.checkboxIndex and advances it
AddNoteIndices(c) ==
    /\ calls[c].pc = "indices"
    /\ LET parsed == NewNote(<<>>, calls[c].content)
           note   == [parsed EXCEPT
                        !.Tasks = [k \in 1..Len(parsed.Tasks) |->
                                     [parsed.Tasks[k] EXCEPT
                                        !.Index = nm["p1"].checkboxIndex + k - 1]]]
       IN  /\ nm' = [nm EXCEPT !["p1"].checkboxIndex = @ + Len(parsed.Tasks)]
           /\ calls' = [calls EXCEPT ![c].note = note, ![c].pc = "prepend"]
    /\ UNCHANGED <<disk, db, noteManagers, last, tx, faults, mu, versions, synchronizer>>

\* AddNote: nm.notes = append([]*models.Note{note}, nm.notes...); needsSave = true
AddNotePrepend(c) ==
    /\ calls[c].pc = "prepend"
    /\ nm' = [nm EXCEPT !["p1"].notes = <<calls[c].note>> \o @,
                        !["p1"].needsSave = TRUE]
    /\ calls' = [calls EXCEPT ![c].pc = "save"]
    /\ UNCHANGED <<disk, db, noteManagers, last, tx, faults, mu, versions, synchronizer>>

\* UpdateTask: note.UpdateTask rewrites n.Content and task.Text, or no note
\* holds the index and the call returns its error
UpdateTaskText(c) ==
    /\ calls[c].pc = "text"
    /\ LET i == OwnerNote(nm["p1"], calls[c].taskIndex)
       IN  IF i = 0
           THEN /\ calls' = [calls EXCEPT ![c].err = TRUE, ![c].pc = "unlock"]
                /\ UNCHANGED nm
           ELSE LET n == nm["p1"].notes[i]
                    k == TaskPos(n, calls[c].taskIndex)
                    u == Note_UpdateTask(n, calls[c].taskIndex, calls[c].checked).note
                IN  /\ nm' = [nm EXCEPT !["p1"].notes[i] =
                                 [u EXCEPT !.Tasks[k].Checked = n.Tasks[k].Checked]]
                    /\ calls' = [calls EXCEPT ![c].pc = "checked"]
    /\ UNCHANGED <<disk, db, noteManagers, last, tx, faults, mu, versions, synchronizer>>

\* UpdateTask: task.Checked = checked; nm.needsSave = true
UpdateTaskChecked(c) ==
    /\ calls[c].pc = "checked"
    /\ LET i == OwnerNote(nm["p1"], calls[c].taskIndex)
       IN  /\ i # 0
           /\ nm' = [nm EXCEPT
                       !["p1"].notes[i].Tasks[TaskPos(nm["p1"].notes[i], calls[c].taskIndex)].Checked =
                           calls[c].checked,
                       !["p1"].needsSave = TRUE]
    /\ calls' = [calls EXCEPT ![c].pc = "save"]
    /\ UNCHANGED <<disk, db, noteManagers, last, tx, faults, mu, versions, synchronizer>>

\* return nm.save()
CallSave(c) ==
    /\ calls[c].pc = "save"
    /\ \E ioOk \in IoOutcomes :
          LET r == save(nm["p1"], disk["p1"], ioOk)
          IN  /\ nm' = [nm EXCEPT !["p1"] = r.nm]
              /\ disk' = [disk EXCEPT !["p1"] = r.disk]
              /\ calls' = [calls EXCEPT ![c].err = r.err, ![c].pc = "unlock"]
              /\ CountFault(ioOk)
    /\ UNCHANGED <<db, noteManagers, last, tx, mu, versions, synchronizer>>

\* defer nm.mu.Unlock()
NM_Unlock(c) ==
    /\ calls[c].pc = "unlock"
    /\ mu' = [w |-> IF mu.w = c THEN 0 ELSE mu.w, r |-> mu.r \ {c}]
    /\ versions' = versions \cup {GetAllTasks(nm["p1"])}
    /\ calls' = [calls EXCEPT ![c].pc = "done"]
    /\ UNCHANGED <<nm, disk, db, noteManagers, last, tx, faults, synchronizer>>

\* GetAllTasks: allTasks = append(allTasks, *task) for the next task, or the
\* loops are over
CopyTask(c) ==
    /\ calls[c].pc = "copy"
    /\ LET all == GetAllTasks(nm["p1"])
           k   == Len(calls[c].snapshot)
       IN  calls' = IF k < Len(all)
                    THEN [calls EXCEPT ![c].snapshot = Append(@, all[k + 1])]
                    ELSE [calls EXCEPT ![c].pc = "runlock"]
    /\ UNCHANGED <<nm, disk, db, noteManagers, last, tx, faults, mu, versions, synchronizer>>

\* defer nm.mu.RUnlock()
NM_RUnlock(c) ==
    /\ calls[c].pc = "runlock"
    /\ mu' = [mu EXCEPT !.r = @ \ {c}]
    /\ calls' = [calls EXCEPT ![c].pc = "done"]
    /\ UNCHANGED <<nm, disk, db, noteManagers, last, tx, faults, versions, synchronizer>>

\* the caller has its result and is free for another call
Return(c) ==
    /\ calls[c].pc = "done"
    /\ calls' = [calls EXCEPT ![c] = NoCall]
    /\ UNCHANGED <<nm, disk, db, noteManagers, last, tx, faults, mu, versions, synchronizer>>

LockNext ==
    \/ \E c \in Mutators, content \in LiveContents : CallAddNote(c, content)
    \/ \E c \in Mutators, taskIndex \in TaskIndexInputs(nm["p1"]), checked \in BOOLEAN :
          CallUpdateTask(c, taskIndex, checked)
    \/ \E c \in Readers : CallGetAllTasks(c)
    \/ \E c \in Callers : NM_Lock(c)
    \/ \E c \in Callers : calls[c].pc = "rlock" /\ NM_RLock(c)
    \/ \E c \in Callers : AddNoteIndices(c)
    \/ \E c \in Callers : AddNotePrepend(c)
    \/ \E c \in Callers : UpdateTaskText(c)
    \/ \E c \in Callers : UpdateTaskChecked(c)
    \/ \E c \in Callers : CallSave(c)
    \/ \E c \in Callers : NM_Unlock(c)
    \/ \E c \in Callers : CopyTask(c)
    \/ \E c \in Callers : NM_RUnlock(c)
    \/ \E c \in Callers : Return(c)

SpecLock == Init /\ [][LockNext]_vars

----------------------------------------------------------------------------
(* SpecOrder: the operations of TaskRegistryService and a project-local     *)
(* mutation run concurrently, statement by statement, over project p1:      *)
(* every Lock/RLock and deferred unlock of trs.mu, nm.mu and fs.mu, and      *)
(* every call into the database between them.  A goroutine at a Lock        *)
(* statement is a pending writer: sync.RWMutex grants no new RLock while a  *)
(* writer is pending.  The database takes no lock of the program: SQLite    *)
(* answers a busy database with an error, not a wait.                       *)

\* what the synchronizer's goroutines leave alone
storeCallers == <<last, tx, faults, calls, versions, svc, query>>

Holds(m, g) == m.w = g \/ g \in m.r

\* the goroutines waiting in trs.mu.Lock(), nm.mu.Lock(), fs.mu.Lock()
TrsWriters == {g \in Goroutines : ops[g].pc = "trs_lock"}

NmWriters == {g \in Goroutines : ops[g].pc = "nm_lock"}

FsWriters == {g \in Goroutines : ops[g].pc = "fs_lock"}

CanLock(m) == m.w = 0 /\ m.r = {}

CanRLock(m, writers) == m.w = 0 /\ writers = {}

Syncing == {g \in Goroutines : /\ Operation[g] \in {"RegisterFolder", "Tick", "ForceSync"}
                               /\ ops[g].pc # "idle"}

\* the AUTOINCREMENT task ids used under concurrent operations
MaxOrderTaskID == 3

\* a pass or registration that starts finds AUTOINCREMENT ids left for its sync
SyncRoom == db.seqTasks + (Cardinality(Syncing) + 1) * MaxSyncNotes <= MaxOrderTaskID

\* the operations in progress at once
MaxInFlight == 3

InFlight == {g \in Goroutines : ops[g].pc # "idle"}

BeginRegister(g) ==
    /\ Cardinality(InFlight) < MaxInFlight
    /\ Operation[g] = "RegisterFolder" /\ ops[g].pc = "idle"
    /\ SyncRoom
    /\ db.seqFolders < MaxFolderID
    /\ ops' = [ops EXCEPT ![g] = [NoOp EXCEPT !.pc = "trs_lock", !.path = "p1"]]
    /\ UNCHANGED <<nm, disk, db, noteManagers, mu, trsMu, fsMu, storeCallers>>

\* the ticker fires or ForceSync is called (no folder is past the staleness
\* threshold here: a tick syncs the project whose last write failed)
BeginPass(g) ==
    /\ Cardinality(InFlight) < MaxInFlight
    /\ Operation[g] \in {"Tick", "ForceSync"} /\ ops[g].pc = "idle"
    /\ SyncRoom
    /\ ops' = [ops EXCEPT ![g] = [NoOp EXCEPT !.pc = "trs_rlock"]]
    /\ UNCHANGED <<nm, disk, db, noteManagers, mu, trsMu, fsMu, storeCallers>>

BeginToggle(g, taskID, completed) ==
    /\ Cardinality(InFlight) < MaxInFlight
    /\ Operation[g] = "UpdateGlobalTaskCompletion" /\ ops[g].pc = "idle"
    /\ ops' = [ops EXCEPT ![g] = [NoOp EXCEPT !.pc = "db_get", !.id = taskID,
                                               !.completed = completed]]
    /\ UNCHANGED <<nm, disk, db, noteManagers, mu, trsMu, fsMu, storeCallers>>

BeginAddNote(g, content) ==
    /\ Cardinality(InFlight) < MaxInFlight
    /\ Operation[g] = "AddNote" /\ ops[g].pc = "idle"
    /\ Len(nm["p1"].notes) < MaxSyncNotes
    /\ ops' = [ops EXCEPT ![g] = [NoOp EXCEPT !.pc = "nm_lock", !.path = "p1",
                                               !.content = content]]
    /\ UNCHANGED <<nm, disk, db, noteManagers, mu, trsMu, fsMu, storeCallers>>

\* RegisterFolder: trs.mu.Lock()
TrsLock(g) ==
    /\ ops[g].pc = "trs_lock"
    /\ CanLock(trsMu)
    /\ trsMu' = [trsMu EXCEPT !.w = g]
    /\ ops' = [ops EXCEPT ![g].pc = "db_register"]
    /\ UNCHANGED <<nm, disk, db, noteManagers, mu, fsMu, storeCallers>>

\* performBackgroundSync, ForceSync, UpdateGlobalTaskCompletion: trs.mu.RLock()
TrsRLock(g) ==
    /\ ops[g].pc = "trs_rlock"
    /\ CanRLock(trsMu, TrsWriters)
    /\ trsMu' = [trsMu EXCEPT !.r = @ \cup {g}]
    /\ ops' = [ops EXCEPT ![g].pc = IF Operation[g] = "UpdateGlobalTaskCompletion"
                                    THEN "lookup" ELSE "db_list"]
    /\ UNCHANGED <<nm, disk, db, noteManagers, mu, fsMu, storeCallers>>

\* RegisterFolder: trs.db.RegisterFolder(folderPath)
DbRegister(g) ==
    /\ ops[g].pc = "db_register"
    /\ LET r == DB_RegisterFolder(db, ops[g].path, TRUE)
       IN  /\ db' = r.db
           /\ ops' = [ops EXCEPT ![g].id = r.id, ![g].pc = "map"]
    /\ UNCHANGED <<nm, disk, noteManagers, mu, trsMu, fsMu, storeCallers>>

\* RegisterFolder: trs.noteManagers[folderPath] = noteManager
MapStore(g) ==
    /\ ops[g].pc = "map"
    /\ noteManagers' = noteManagers \cup {ops[g].path}
    /\ ops' = [ops EXCEPT ![g].pc = "nm_rlock"]
    /\ UNCHANGED <<nm, disk, db, mu, trsMu, fsMu, storeCallers>>

\* the passes: trs.db.GetActiveFolders()
DbList(g) ==
    /\ ops[g].pc = "db_list"
    /\ ops' = [ops EXCEPT ![g].folders = GetActiveFolders(db), ![g].pc = "validate"]
    /\ UNCHANGED <<nm, disk, db, noteManagers, mu, trsMu, fsMu, storeCallers>>

\* the passes: the head of the loop over folders: validateFolder, the lookup
\* in trs.noteManagers, and the way into HasChanges or syncFolderTasks
Validate(g) ==
    /\ ops[g].pc = "validate"
    /\ IF ops[g].folders = <<>>
       THEN ops' = [ops EXCEPT ![g].pc = "remove"]
       ELSE LET folder == Head(ops[g].folders)
                next   == [ops[g] EXCEPT !.folders = Tail(@)]
            IN  IF ~validateFolder(disk[folder.path])
                THEN ops' = [ops EXCEPT ![g] = [next EXCEPT !.staged = @ \cup {folder.id}]]
                ELSE IF folder.path \notin noteManagers
                THEN ops' = [ops EXCEPT ![g] = next]
                ELSE ops' = [ops EXCEPT ![g] =
                                [next EXCEPT !.id = folder.id, !.path = folder.path,
                                             !.stale = IsStale(folder),
                                             !.indexWritten = FALSE,
                                             !.pc = IF Operation[g] = "ForceSync"
                                                    THEN "nm_rlock" ELSE "has_rlock"]]
    /\ UNCHANGED <<nm, disk, db, noteManagers, mu, trsMu, fsMu, storeCallers>>

\* HasChanges: nm.mu.RLock()
HasRLock(g) ==
    /\ ops[g].pc = "has_rlock"
    /\ CanRLock(mu, NmWriters)
    /\ mu' = [mu EXCEPT !.r = @ \cup {g}]
    /\ ops' = [ops EXCEPT ![g].pc = "has_read"]
    /\ UNCHANGED <<nm, disk, db, noteManagers, trsMu, fsMu, storeCallers>>

\* HasChanges: return nm.needsSave
HasRead(g) ==
    /\ ops[g].pc = "has_read"
    /\ ops' = [ops EXCEPT ![g].dirty = HasChanges(nm[ops[g].path]),
                          ![g].pc = "has_runlock"]
    /\ UNCHANGED <<nm, disk, db, noteManagers, mu, trsMu, fsMu, storeCallers>>

\* HasChanges: defer nm.mu.RUnlock(), then the test of performBackgroundSync
HasRUnlock(g) ==
    /\ ops[g].pc = "has_runlock"
    /\ mu' = [mu EXCEPT !.r = @ \ {g}]
    /\ ops' = [ops EXCEPT ![g].pc = IF ops[g].dirty \/ ops[g].stale
                                    THEN "nm_rlock" ELSE "validate"]
    /\ UNCHANGED <<nm, disk, db, noteManagers, trsMu, fsMu, storeCallers>>

\* GetAllTasks: nm.mu.RLock()
NmRLock(g) ==
    /\ ops[g].pc = "nm_rlock"
    /\ CanRLock(mu, NmWriters)
    /\ mu' = [mu EXCEPT !.r = @ \cup {g}]
    /\ ops' = [ops EXCEPT ![g].pc = "read"]
    /\ UNCHANGED <<nm, disk, db, noteManagers, trsMu, fsMu, storeCallers>>

\* GetAllTasks: the copy of every task
ReadTasks(g) ==
    /\ ops[g].pc = "read"
    /\ ops' = [ops EXCEPT ![g].snapshot = GetAllTasks(nm[ops[g].path]),
                          ![g].pc = "nm_runlock"]
    /\ UNCHANGED <<nm, disk, db, noteManagers, mu, trsMu, fsMu, storeCallers>>

\* GetAllTasks: defer nm.mu.RUnlock()
NmRUnlock(g) ==
    /\ ops[g].pc = "nm_runlock"
    /\ mu' = [mu EXCEPT !.r = @ \ {g}]
    /\ ops' = [ops EXCEPT ![g].pc = IF Operation[g] = "UpdateGlobalTaskCompletion"
                                    THEN "match" ELSE "db_sync"]
    /\ UNCHANGED <<nm, disk, db, noteManagers, trsMu, fsMu, storeCallers>>

\* syncFolderTasks: trs.db.SyncFolderTasks(folderID, tasks)
\* (the schema declares tasks.folder_id a foreign key, which SQLite enforces
\* only when the driver is built or opened with foreign keys on; nothing in
\* the program turns them on, so both builds are possible: with enforcement
\* the first INSERT for a folder row that is gone fails and the transaction
\* is rolled back)
DbSync(g) ==
    /\ ops[g].pc = "db_sync"
    /\ \E enforced \in BOOLEAN :
          db' = SyncFolderTasks(db, ops[g].id, ops[g].snapshot,
                                ~(/\ enforced
                                  /\ ops[g].snapshot # <<>>
                                  /\ \A f \in db.folders : f.id # ops[g].id)).db
    /\ ops' = [ops EXCEPT ![g].indexWritten = TRUE,
                          ![g].pc = IF Operation[g] = "RegisterFolder"
                                    THEN "trs_unlock" ELSE "validate"]
    /\ UNCHANGED <<nm, disk, noteManagers, mu, trsMu, fsMu, storeCallers>>

\* the passes: trs.db.RemoveFolder for every staged folder
RemoveFolders(g) ==
    /\ ops[g].pc = "remove"
    /\ db' = RemoveStaged(db, ops[g].staged, NoFault).db
    /\ ops' = [ops EXCEPT ![g].pc = "trs_runlock"]
    /\ UNCHANGED <<nm, disk, noteManagers, mu, trsMu, fsMu, storeCallers>>

\* RegisterFolder: defer trs.mu.Unlock()
TrsUnlock(g) ==
    /\ ops[g].pc = "trs_unlock"
    /\ trsMu' = [trsMu EXCEPT !.w = 0]
    /\ ops' = [ops EXCEPT ![g] = NoOp]
    /\ UNCHANGED <<nm, disk, db, noteManagers, mu, fsMu, storeCallers>>

\* the passes: defer trs.mu.RUnlock(); the toggle: trs.mu.RUnlock() after the lookup
TrsRUnlock(g) ==
    /\ ops[g].pc = "trs_runlock"
    /\ trsMu' = [trsMu EXCEPT !.r = @ \ {g}]
    /\ ops' = [ops EXCEPT ![g] = IF Operation[g] = "UpdateGlobalTaskCompletion" /\ ops[g].exists
                                 THEN [@ EXCEPT !.pc = "nm_rlock"]
                                 ELSE NoOp]
    /\ UNCHANGED <<nm, disk, db, noteManagers, mu, fsMu, storeCallers>>

\* the toggle: trs.db.GetGlobalTasks() and the search for taskID
DbGet(g) ==
    /\ ops[g].pc = "db_get"
    /\ LET found == {t \in GetGlobalTasks(db) : t.id = ops[g].id}
       IN  IF found = {} THEN ops' = [ops EXCEPT ![g] = NoOp]
           ELSE LET targetTask == CHOOSE t \in found : TRUE
                IN  ops' = [ops EXCEPT ![g].path = targetTask.folder_path,
                                       ![g].content = targetTask.content,
                                       ![g].pc = "db_update"]
    /\ UNCHANGED <<nm, disk, db, noteManagers, mu, trsMu, fsMu, storeCallers>>

\* the toggle: trs.db.UpdateTaskCompletion(taskID, completed)
DbUpdate(g) ==
    /\ ops[g].pc = "db_update"
    /\ db' = UpdateTaskCompletion(db, ops[g].id, ops[g].completed, TRUE).db
    /\ ops' = [ops EXCEPT ![g].indexWritten = TRUE, ![g].pc = "trs_rlock"]
    /\ UNCHANGED <<nm, disk, noteManagers, mu, trsMu, fsMu, storeCallers>>

\* the toggle: noteManager, exists := trs.noteManagers[targetTask.FolderPath]
Lookup(g) ==
    /\ ops[g].pc = "lookup"
    /\ ops' = [ops EXCEPT ![g].exists = ops[g].path \in noteManagers,
                          ![g].pc = "trs_runlock"]
    /\ UNCHANGED <<nm, disk, db, noteManagers, mu, trsMu, fsMu, storeCallers>>

\* the toggle: the loop over the copied tasks for task.Text == targetTask.Content
Match(g) ==
    /\ ops[g].pc = "match"
    /\ LET ts   == ops[g].snapshot
           hits == {k \in 1..Len(ts) : ts[k].Text = ops[g].content}
       IN  IF hits = {} THEN ops' = [ops EXCEPT ![g] = NoOp]
           ELSE ops' = [ops EXCEPT ![g].taskIndex =
                                      ts[CHOOSE k \in hits : \A j \in hits : k <= j].Index,
                                   ![g].pc = "nm_lock"]
    /\ UNCHANGED <<nm, disk, db, noteManagers, mu, trsMu, fsMu, storeCallers>>

\* AddNote, UpdateTask: nm.mu.Lock()
NmLock(g) ==
    /\ ops[g].pc = "nm_lock"
    /\ CanLock(mu)
    /\ mu' = [mu EXCEPT !.w = g]
    /\ ops' = [ops EXCEPT ![g].pc = "mutate"]
    /\ UNCHANGED <<nm, disk, db, noteManagers, trsMu, fsMu, storeCallers>>

\* a mutation that calls GetAllTasks on its own store before it saves
MutateThenGetAllTasks(g) ==
    /\ ops[g].pc = "mutate"
    /\ nm' = [nm EXCEPT ![ops[g].path].needsSave = TRUE]
    /\ ops' = [ops EXCEPT ![g].pc = "nm_rlock"]
    /\ UNCHANGED <<disk, db, noteManagers, mu, trsMu, fsMu, storeCallers>>

\* AddNote, UpdateTask: the change in memory up to nm.needsSave = true, or
\* UpdateTask finds no task with the index and returns
Mutate(g) ==
    /\ ops[g].pc = "mutate"
    /\ LET s == nm[ops[g].path]
           d == disk[ops[g].path]
       IN  IF Operation[g] = "AddNote"
           THEN /\ nm' = [nm EXCEPT ![ops[g].path] =
                             NM_AddNote(s, d, <<>>, ops[g].content, FALSE).nm]
                /\ ops' = [ops EXCEPT ![g].pc = "fs_lock"]
           ELSE IF OwnerNote(s, ops[g].taskIndex) = 0
           THEN /\ ops' = [ops EXCEPT ![g].pc = "nm_unlock"]
                /\ UNCHANGED nm
           ELSE /\ nm' = [nm EXCEPT ![ops[g].path] =
                             NM_UpdateTask(s, d, ops[g].taskIndex, ops[g].completed,
                                           FALSE).nm]
                /\ ops' = [ops EXCEPT ![g].pc = "fs_lock"]
    /\ UNCHANGED <<disk, db, noteManagers, mu, trsMu, fsMu, storeCallers>>

\* SaveNotes: fs.mu.Lock()
FsLock(g) ==
    /\ ops[g].pc = "fs_lock"
    /\ CanLock(fsMu)
    /\ fsMu' = [fsMu EXCEPT !.w = g]
    /\ ops' = [ops EXCEPT ![g].pc = "write"]
    /\ UNCHANGED <<nm, disk, db, noteManagers, mu, trsMu, storeCallers>>

\* SaveNotes: os.WriteFile, and save() clears nm.needsSave
WriteFile(g) ==
    /\ ops[g].pc = "write"
    /\ \E ioOk \in IoOutcomes :
          LET r == save(nm[ops[g].path], disk[ops[g].path], ioOk)
          IN  /\ nm' = [nm EXCEPT ![ops[g].path] = r.nm]
              /\ disk' = [disk EXCEPT ![ops[g].path] = r.disk]
              /\ CountFault(ioOk)
    /\ ops' = [ops EXCEPT ![g].pc = "fs_unlock"]
    /\ UNCHANGED <<db, noteManagers, mu, trsMu, fsMu, last, tx, calls, versions, svc, query>>

\* SaveNotes: defer fs.mu.Unlock()
FsUnlock(g) ==
    /\ ops[g].pc = "fs_unlock"
    /\ fsMu' = [fsMu EXCEPT !.w = 0]
    /\ ops' = [ops EXCEPT ![g].pc = "nm_unlock"]
    /\ UNCHANGED <<nm, disk, db, noteManagers, mu, trsMu, storeCallers>>

\* AddNote, UpdateTask: defer nm.mu.Unlock()
NmUnlock(g) ==
    /\ ops[g].pc = "nm_unlock"
    /\ mu' = [mu EXCEPT !.w = 0]
    /\ ops' = [ops EXCEPT ![g] = NoOp]
    /\ UNCHANGED <<nm, disk, db, noteManagers, trsMu, fsMu, storeCallers>>

\* the goroutines a goroutine waits for at a Lock or RLock statement: the
\* holders that exclude it and, for a reader, the pending writers
WaitsFor(g) ==
    LET writer(m) == IF m.w = 0 THEN {} ELSE {m.w}
    IN  CASE ops[g].pc = "trs_lock"  -> writer(trsMu) \cup trsMu.r
          [] ops[g].pc = "trs_rlock" -> writer(trsMu) \cup TrsWriters
          [] ops[g].pc = "nm_lock"   -> writer(mu) \cup mu.r
          [] ops[g].pc \in {"has_rlock", "nm_rlock"} -> writer(mu) \cup NmWriters
          [] ops[g].pc = "fs_lock"   -> writer(fsMu) \cup fsMu.r
          [] OTHER -> {}

\* the next statement of the operation goroutine g is in
GoStep(g) ==
    \/ TrsLock(g) \/ TrsRLock(g) \/ DbRegister(g) \/ MapStore(g) \/ DbList(g)
    \/ Validate(g) \/ HasRLock(g) \/ HasRead(g) \/ HasRUnlock(g) \/ NmRLock(g)
    \/ ReadTasks(g) \/ NmRUnlock(g) \/ DbSync(g) \/ RemoveFolders(g) \/ TrsUnlock(g)
    \/ TrsRUnlock(g) \/ DbGet(g) \/ DbUpdate(g) \/ Lookup(g) \/ Match(g) \/ NmLock(g)
    \/ Mutate(g) \/ FsLock(g) \/ WriteFile(g) \/ FsUnlock(g) \/ NmUnlock(g)

OrderNext ==
    \/ \E g \in Goroutines : BeginRegister(g)
    \/ \E g \in Goroutines : BeginPass(g)
    \/ \E g \in Goroutines, taskID \in TaskIdInputs, completed \in BOOLEAN :
          BeginToggle(g, taskID, completed)
    \/ \E g \in Goroutines, content \in LiveContents : BeginAddNote(g, content)
    \/ \E g \in Goroutines : TrsLock(g)
    \/ \E g \in Goroutines : TrsRLock(g)
    \/ \E g \in Goroutines : DbRegister(g)
    \/ \E g \in Goroutines : MapStore(g)
    \/ \E g \in Goroutines : DbList(g)
    \/ \E g \in Goroutines : Validate(g)
    \/ \E g \in Goroutines : HasRLock(g)
    \/ \E g \in Goroutines : HasRead(g)
    \/ \E g \in Goroutines : HasRUnlock(g)
    \/ \E g \in Goroutines : NmRLock(g)
    \/ \E g \in Goroutines : ReadTasks(g)
    \/ \E g \in Goroutines : NmRUnlock(g)
    \/ \E g \in Goroutines : DbSync(g)
    \/ \E g \in Goroutines : RemoveFolders(g)
    \/ \E g \in Goroutines : TrsUnlock(g)
    \/ \E g \in Goroutines : TrsRUnlock(g)
    \/ \E g \in Goroutines : DbGet(g)
    \/ \E g \in Goroutines : DbUpdate(g)
    \/ \E g \in Goroutines : Lookup(g)
    \/ \E g \in Goroutines : Match(g)
    \/ \E g \in Goroutines : NmLock(g)
    \/ \E g \in Goroutines : Mutate(g)
    \/ \E g \in Goroutines : FsLock(g)
    \/ \E g \in Goroutines : WriteFile(g)
    \/ \E g \in Goroutines : FsUnlock(g)
    \/ \E g \in Goroutines : NmUnlock(g)
    \/ RemoveNotesFile("p1")

SpecOrder == Init /\ [][OrderNext]_vars

----------------------------------------------------------------------------
(* SpecClose: the goroutine of startBackgroundSync, its passes taken one    *)
(* index call at a time, and Close() called from another goroutine.  After  *)
(* db.Close() a call that needs a connection fails ("sql: database is       *)
(* closed"); a transaction that already has its connection keeps it until   *)
(* it commits (DB.Close closes the idle connections only).  Stop() leaves a *)
(* tick that is already in ticker.C there or not, depending on the Go       *)
(* release the program is built with.                                       *)

\* what the service's goroutine and Close leave alone
beside == <<last, tx, faults, mu, calls, versions, trsMu, fsMu, ops, query>>

\* the ticker sends a tick; a tick that finds ticker.C full is dropped (no
\* folder is past the staleness threshold here: a pass syncs the project
\* whose last write failed)
TickerFires ==
    /\ ~svc.stopped /\ ~svc.tick
    /\ svc' = [svc EXCEPT !.tick = TRUE]
    /\ UNCHANGED <<nm, disk, db, noteManagers, beside>>

\* select: case <-trs.syncTicker.C
SelectTick ==
    /\ svc.loop = "select" /\ svc.tick
    /\ svc' = [svc EXCEPT !.tick = FALSE, !.loop = "received"]
    /\ UNCHANGED <<nm, disk, db, noteManagers, beside>>

\* select: case <-trs.stopCh: return
SelectStop ==
    /\ svc.loop = "select" /\ svc.stopCh
    /\ svc' = [svc EXCEPT !.loop = "exited"]
    /\ UNCHANGED <<nm, disk, db, noteManagers, beside>>

\* trs.performBackgroundSync() is called
PassBegin ==
    /\ svc.loop = "received"
    /\ svc' = [svc EXCEPT !.loop = "pass", !.pc = "list", !.folders = <<>>,
                          !.staged = {}]
    /\ UNCHANGED <<nm, disk, db, noteManagers, beside>>

\* trs.db.GetActiveFolders(); the pass returns when it fails
PassList ==
    /\ svc.loop = "pass" /\ svc.pc = "list"
    /\ svc' = IF svc.dbClosed THEN [svc EXCEPT !.loop = "select", !.pc = ""]
              ELSE [svc EXCEPT !.folders = GetActiveFolders(db), !.pc = "folder"]
    /\ UNCHANGED <<nm, disk, db, noteManagers, beside>>

\* the next folder of the loop: staged, skipped, or its sync begins with
\* GetAllTasks and db.Begin(), which fails on a closed database
PassFolder ==
    /\ svc.loop = "pass" /\ svc.pc = "folder"
    /\ IF svc.folders = <<>>
       THEN svc' = [svc EXCEPT !.pc = "remove"]
       ELSE LET folder == Head(svc.folders)
                next   == [svc EXCEPT !.folders = Tail(@)]
            IN  IF ~validateFolder(disk[folder.path])
                THEN svc' = [next EXCEPT !.staged = @ \cup {folder.id}]
                ELSE IF folder.path \notin noteManagers THEN svc' = next
                ELSE IF (HasChanges(nm[folder.path]) \/ IsStale(folder)) /\ ~svc.dbClosed
                THEN svc' = [next EXCEPT !.id = folder.id,
                                         !.snapshot = GetAllTasks(nm[folder.path]),
                                         !.pc = "commit"]
                ELSE svc' = next
    /\ UNCHANGED <<nm, disk, db, noteManagers, beside>>

\* the statements of the transaction up to tx.Commit()
PassCommit ==
    /\ svc.loop = "pass" /\ svc.pc = "commit"
    /\ db' = SyncFolderTasks(db, svc.id, svc.snapshot, TRUE).db
    /\ svc' = [svc EXCEPT !.pc = "folder"]
    /\ UNCHANGED <<nm, disk, noteManagers, beside>>

\* trs.db.RemoveFolder for every staged folder, each failing on a closed
\* database; the pass returns
PassRemove ==
    /\ svc.loop = "pass" /\ svc.pc = "remove"
    /\ db' = IF svc.dbClosed THEN db ELSE RemoveStaged(db, svc.staged, NoFault).db
    /\ svc' = [svc EXCEPT !.loop = "select", !.pc = "", !.staged = {}]
    /\ UNCHANGED <<nm, disk, noteManagers, beside>>

\* Close: trs.syncTicker.Stop(); close(trs.stopCh)
CloseStop ==
    /\ ~svc.stopped
    /\ \E drained \in BOOLEAN :
          svc' = [svc EXCEPT !.stopped = TRUE, !.stopCh = TRUE,
                             !.tick = IF drained THEN FALSE ELSE @]
    /\ UNCHANGED <<nm, disk, db, noteManagers, beside>>

\* Close: return trs.db.Close()
CloseDb ==
    /\ svc.stopped /\ ~svc.returned
    /\ svc' = [svc EXCEPT !.dbClosed = TRUE, !.returned = TRUE]
    /\ UNCHANGED <<nm, disk, db, noteManagers, beside>>

CloseNext ==
    \/ \E p \in Paths :
          /\ ~svc.stopped /\ p \notin noteManagers
          /\ RegisterFolder(p, NoFault) /\ IdsInBounds
    \/ \E p \in Paths, ioOk \in IoOutcomes :
          /\ nm[p].notes = <<>>
          /\ \E content \in LiveContents : AddNote(p, <<>>, content, ioOk)
    \/ \E p \in Paths : RemoveNotesFile(p)
    \/ TickerFires
    \/ SelectTick
    \/ SelectStop
    \/ PassBegin
    \/ PassList
    \/ PassFolder
    \/ PassCommit /\ IdsInBounds
    \/ PassRemove
    \/ CloseStop
    \/ CloseDb

SpecClose == Init /\ [][CloseNext]_vars

----------------------------------------------------------------------------
(* SpecQuery: DatabaseService.GetGlobalTasks over the tables as any         *)
(* sequence of syncs and toggles at different times can leave them: up to   *)
(* MaxRows task rows in two folders, one of which may be inactive, every    *)
(* row with the time of its last write.  Times are instants; two rows       *)
(* written within the clock's resolution carry the same one.                *)

MaxRows == 3

MaxTime == 2

\* a query that sorts the oldest write first
OrderedBeforeOldestFirst(a, b) ==
    LET pos(path) == CHOOSE i \in 1..Len(PathOrder) : PathOrder[i] = path
    IN  \/ pos(a.folder_path) < pos(b.folder_path)
        \/ /\ a.folder_path = b.folder_path
           /\ \/ ~a.completed /\ b.completed
              \/ a.completed = b.completed /\ a.last_updated < b.last_updated

\* a row sorts strictly before another under
\* ORDER BY f.path, t.completed, t.last_updated DESC
OrderedBefore(a, b) ==
    LET pos(path) == CHOOSE i \in 1..Len(PathOrder) : PathOrder[i] = path
    IN  \/ pos(a.folder_path) < pos(b.folder_path)
        \/ /\ a.folder_path = b.folder_path
           /\ \/ ~a.completed /\ b.completed
              \/ a.completed = b.completed /\ a.last_updated > b.last_updated

\* the rows of the SELECT with t.last_updated
QueryRows(d, updated) ==
    {[id |-> t.id, folder_id |-> t.folder_id, line_number |-> t.line_number,
      content |-> t.content, completed |-> t.completed,
      folder_path |-> t.folder_path, last_updated |-> updated[t.id]]
     : t \in GetGlobalTasks(d)}

\* the responses the query can give: the rows in an order the ORDER BY
\* allows (rows that tie on all three keys come in any order), and Total
GlobalTasksResponses(d, updated) ==
    LET rows == QueryRows(d, updated)
        n    == Cardinality(rows)
    IN  {[Tasks |-> tasks, Total |-> Len(tasks)] :
            tasks \in {s \in [1..n -> rows] :
                          /\ \A i, j \in 1..n : i # j => s[i] # s[j]
                          /\ \A i, j \in 1..n : i < j => ~OrderedBefore(s[j], s[i])}}

\* the tables at the time of a call
QueryTables ==
    {[folders    |-> {[id |-> 1, path |-> "p1", scan_age |-> 0, active |-> TRUE],
                      [id |-> 2, path |-> "p2", scan_age |-> 0, active |-> active2]},
      tasks      |-> {[id |-> i, folder_id |-> folder[i], line_number |-> i - 1,
                       content |-> Item(IF done[i] THEN CheckedLower ELSE Unchecked, "a"),
                       completed |-> done[i]] : i \in 1..n},
      seqFolders |-> 2,
      seqTasks   |-> n]
     : <<n, active2, folder, done>> \in
          {<<n, active2, folder, done>> \in
              (0..MaxRows) \X BOOLEAN \X [1..MaxRows -> 1..2] \X [1..MaxRows -> BOOLEAN] :
              \A i \in (n + 1)..MaxRows : folder[i] = 1 /\ ~done[i]}}

\* GetGlobalTasks is called on some tables
QueryCall ==
    /\ query.pc = "idle"
    /\ \E d \in QueryTables, updated \in [1..MaxRows -> 1..MaxTime] :
          query' = [NoQuery EXCEPT !.pc = "called", !.db = d, !.last_updated = updated]
    /\ UNCHANGED <<nm, disk, db, noteManagers, last, tx, faults, mu, calls, versions,
                   trsMu, fsMu, ops, svc>>

\* the query and the response built from its rows
QueryReturn ==
    /\ query.pc = "called"
    /\ \E resp \in GlobalTasksResponses(query.db, query.last_updated) :
          query' = [query EXCEPT !.pc = "returned", !.resp = resp]
    /\ UNCHANGED <<nm, disk, db, noteManagers, last, tx, faults, mu, calls, versions,
                   trsMu, fsMu, ops, svc>>

QueryNext == QueryCall \/ QueryReturn

SpecQuery == Init /\ [][QueryNext]_vars

----------------------------------------------------------------------------
(* SpecLoad: one project whose store is written to notes.md by AddNote and  *)
(* read back by NewNoteManager (a restart of the program on the folder)     *)

\* strings.Split(s, sep) for a non-empty sep
RECURSIVE Split(_, _)
Split(s, sep) ==
    LET i == IndexOf(s, sep)
    IN  IF i = 0 THEN <<s>>
        ELSE <<SubSeq(s, 1, i - 1)>> \o Split(SubSeq(s, i + Len(sep), Len(s)), sep)

\* models.NewNoteFromText: the first line is the header, "T" or "T - title"
\* when it matches the timestamp pattern and the title itself otherwise; the
\* rest is the content, trimmed
NewNoteFromText(text) ==
    LET nl      == IndexOf(text, <<"\n">>)
        line0   == IF nl = 0 THEN text ELSE SubSeq(text, 1, nl - 1)
        header  == IF HasPrefixAt(line0, <<"#", "#", " ">>, 1)
                   THEN SubSeq(line0, 4, Len(line0)) ELSE line0
        title   == IF header = <<"T">> THEN <<>>
                   ELSE IF HasPrefixAt(header, <<"T", " ", "-", " ">>, 1)
                        THEN SubSeq(header, 5, Len(header))
                   ELSE header
        content == IF nl = 0 THEN <<>>
                   ELSE TrimSpace(SubSeq(text, nl + 1, Len(text)))
    IN  NewNote(title, content)

\* FileStorage.parseNotes: the pieces between separators, trimmed; the empty
\* ones and those that do not start with "## " are skipped
RECURSIVE parsePieces(_)
parsePieces(rawNotes) ==
    IF rawNotes = <<>> THEN <<>>
    ELSE LET rawNote == TrimSpace(Head(rawNotes))
         IN  (IF rawNote # <<>> /\ HasPrefixAt(rawNote, <<"#", "#", " ">>, 1)
              THEN <<NewNoteFromText(rawNote)>> ELSE <<>>)
             \o parsePieces(Tail(rawNotes))

\* a loader that treats the whole file as one note
parseNotesUnsplit(content) == parsePieces(<<content>>)

parseNotes(content) == parsePieces(Split(content, NoteSeparator))

\* FileStorage.LoadNotes: a missing notes.md is created empty
LoadNotes(d) ==
    IF ~d.fileExists
    THEN [disk |-> [d EXCEPT !.fileExists = TRUE, !.file = <<>>], notes |-> <<>>]
    ELSE [disk |-> d, notes |-> IF d.file = <<>> THEN <<>> ELSE parseNotes(d.file)]

\* NoteManager.loadNotes: the loaded notes with assignTaskIndices
NM_loadNotes(d) ==
    LET l     == LoadNotes(d)
        notes == Renumber(l.notes, 1, 0)
    IN  [disk |-> l.disk,
         nm   |-> [notes |-> notes,
                   checkboxIndex |-> TaskCount(notes, 1, Len(notes)),
                   needsSave |-> FALSE]]

\* NewNoteManager(p) on an existing folder replaces the store of p
NewNoteManager(p) ==
    /\ disk[p].dirExists
    /\ LET r == NM_loadNotes(disk[p])
       IN  /\ nm' = [nm EXCEPT ![p] = r.nm]
           /\ disk' = [disk EXCEPT ![p] = r.disk]
           /\ last' = [NoLast EXCEPT !.op = "NewNoteManager", !.path = p]
    /\ UNCHANGED <<db, noteManagers, tx, faults, locks>>

LoadTitles == {<<>>, <<"t">>}

LoadContents ==
    { <<>>,
      Item(Unchecked, "a"),
      Item(Unchecked, "a") \o <<"\n">>,
      TwoLines(Item(Unchecked, "a"), Item(CheckedUpper, "b")),
      Item(Unchecked, "a") \o NoteSeparator \o Item(CheckedLower, "b") }

LoadNext ==
    \/ /\ Len(nm["p1"].notes) < MaxNotes
       /\ \E title \in LoadTitles, content \in LoadContents :
             AddNote("p1", title, content, TRUE)
    \/ NewNoteManager("p1")
    \/ RemoveNotesFile("p1")

SpecLoad == Init /\ [][LoadNext]_vars

----------------------------------------------------------------------------
(* SpecParse: the task parser on every content of up to MaxLen characters   *)
(* over the characters that matter to it; a note is added with the content  *)
(* and then a second note with the same content                             *)

MaxLen == 6

ParseAlphabet == {"[", "]", "x", "X", " ", "\n", "a"}

ParseContents == UNION {[1..n -> ParseAlphabet] : n \in 0..MaxLen}

ParseNext ==
    \/ /\ nm["p1"].notes = <<>>
       /\ \E content \in ParseContents : AddNote("p1", <<>>, content, TRUE)
    \/ /\ Len(nm["p1"].notes) = 1
       /\ AddNote("p1", <<>>, nm["p1"].notes[1].Content, TRUE)

SpecParse == Init /\ [][ParseNext]_vars

----------------------------------------------------------------------------
(* SpecIndex: the task indices of one store of up to MaxIndexNotes notes    *)
(* under addNote, updateNote, deleteNote and a reload of the note file,     *)
(* with contents of zero, one and two tasks; every write succeeds           *)

MaxIndexNotes == 3

IndexContents ==
    { <<"a">>,
      Item(Unchecked, "a"),
      TwoLines(Item(Unchecked, "a"), Item(CheckedLower, "b")) }

IndexNext ==
    \/ /\ Len(nm["p1"].notes) < MaxIndexNotes
       /\ IndexInBounds(nm["p1"])
       /\ \E content \in IndexContents : AddNote("p1", <<>>, content, TRUE)
    \/ /\ IndexInBounds(nm["p1"])
       /\ \E index \in 0..(Len(nm["p1"].notes) - 1), content \in IndexContents :
             UpdateNote("p1", index, <<>>, content, TRUE)
    \/ \E index \in 0..(Len(nm["p1"].notes) - 1) : DeleteNote("p1", index, TRUE)
    \/ NewNoteManager("p1")

SpecIndex == Init /\ [][IndexNext]_vars

----------------------------------------------------------------------------
(* SpecReverse: one toggle at a time taken step by step (the index calls,   *)
(* the copy of the store's tasks under the read lock, the match, UpdateTask *)
(* under the write lock) while addNote, updateNote and deleteNote run on    *)
(* the same store whenever its lock is free                                 *)

ReverseContents == { Item(Unchecked, "a"), Item(Unchecked, "b") }

\* nm.mu is free: a whole mutation of the store can run
StoreLockFree == mu.w = 0 /\ mu.r = {}

ReverseNext ==
    \/ /\ "p1" \notin noteManagers
       /\ RegisterFolder("p1", NoFault) /\ IdsInBounds
    \/ /\ StoreLockFree
       /\ Len(nm["p1"].notes) < MaxSyncNotes
       /\ IndexInBounds(nm["p1"])
       /\ \E content \in ReverseContents : AddNote("p1", <<>>, content, TRUE)
    \/ /\ StoreLockFree
       /\ IndexInBounds(nm["p1"])
       /\ \E index \in 0..(Len(nm["p1"].notes) - 1), content \in ReverseContents :
             UpdateNote("p1", index, <<>>, content, TRUE)
    \/ /\ StoreLockFree
       /\ \E index \in 0..(Len(nm["p1"].notes) - 1) : DeleteNote("p1", index, TRUE)
    \/ \E g \in Goroutines, taskID \in TaskIdInputs, completed \in BOOLEAN :
          BeginToggle(g, taskID, completed)
    \/ \E g \in Goroutines : DbGet(g)
    \/ \E g \in Goroutines : DbUpdate(g)
    \/ \E g \in Goroutines : TrsRLock(g)
    \/ \E g \in Goroutines : Lookup(g)
    \/ \E g \in Goroutines : TrsRUnlock(g)
    \/ \E g \in Goroutines : NmRLock(g)
    \/ \E g \in Goroutines : ReadTasks(g)
    \/ \E g \in Goroutines : NmRUnlock(g)
    \/ \E g \in Goroutines : Match(g)
    \/ \E g \in Goroutines : NmLock(g)
    \/ \E g \in Goroutines : Mutate(g)
    \/ \E g \in Goroutines : FsLock(g)
    \/ \E g \in Goroutines : WriteFile(g)
    \/ \E g \in Goroutines : FsUnlock(g)
    \/ \E g \in Goroutines : NmUnlock(g)

SpecReverse == Init /\ [][ReverseNext]_vars

----------------------------------------------------------------------------
(* SpecHandle: one project under ticks and forced syncs across restarts of  *)
(* the program: tasks.db keeps its rows while the new service starts with   *)
(* an empty map of stores, and the project's notes change without the       *)
(* running service holding its store                                        *)

\* NewTaskRegistryService in a new process: no store is registered
Restart ==
    /\ noteManagers # {}
    /\ noteManagers' = {}
    /\ last' = [NoLast EXCEPT !.op = "Restart"]
    /\ UNCHANGED <<nm, disk, db, tx, faults, locks>>

HandleNext ==
    \/ /\ "p1" \notin noteManagers
       /\ RegisterFolder("p1", NoFault) /\ IdsInBounds
       /\ db'.seqFolders <= MaxFolderID
    \/ /\ Len(nm["p1"].notes) < MaxSyncNotes
       /\ IndexInBounds(nm["p1"])
       /\ \E content \in LiveContents : AddNote("p1", <<>>, content, TRUE)
    \/ \E index \in 0..(Len(nm["p1"].notes) - 1) : DeleteNote("p1", index, TRUE)
    \/ Restart
    \/ \E fault \in FaultChoices(PassFaults(AgeFolders(db), FALSE)) :
          Tick(fault) /\ IdsInBounds
    \/ \E fault \in FaultChoices(PassFaults(db, TRUE)) :
          ForceSync(fault) /\ IdsInBounds
    \/ RemoveNotesFile("p1")

SpecHandle == Init /\ [][HandleNext]_vars

----------------------------------------------------------------------------
(* Claims about the project task store                                      *)

\* the checked flags of the checkbox markers of a text, in scan order
MarkerFlags(content) ==
    LET ts == parseTasks(content) IN [k \in 1..Len(ts) |-> ts[k].Checked]

\* C1: after every addNote, updateNote and deleteNote the task indices of the
\* whole collection are exactly 0..n-1, n the number of tasks (no gap, no
\* duplicate).
C1_IndicesContiguous ==
    LET ts == GetAllTasks(nm["p1"])
    IN  {ts[k].Index : k \in 1..Len(ts)} = 0..(Len(ts) - 1)

\* C2: each note's cached task list equals what parsing the note's current
\* content yields: same number of tasks, same order, same checked flag and
\* same literal text.
C2_CacheMatchesContent ==
    \A i \in 1..Len(nm["p1"].notes) :
        LET n      == nm["p1"].notes[i]
            parsed == parseTasks(n.Content)
        IN  /\ Len(n.Tasks) = Len(parsed)
            /\ \A k \in 1..Len(parsed) :
                  /\ n.Tasks[k].Checked = parsed[k].Checked
                  /\ n.Tasks[k].Text = parsed[k].Text

\* C3: after updateTask(i, c) succeeds, getAllTasks returns a task with index
\* i and checked flag c, and in the owning note's content exactly the marker
\* at that task's scan position is set to c, every other marker of every note
\* being unchanged.
C3_UpdateTaskSetsItsMarker ==
    [][\A i \in TaskIndexInputs(nm["p1"]), c \in BOOLEAN :
          (UpdateTask("p1", i, c, TRUE) /\ last'.ok) =>
              LET o  == OwnerNote(nm["p1"], i)
                  k  == TaskPos(nm["p1"].notes[o], i)
                  ts == GetAllTasks(nm'["p1"])
              IN  /\ \E j \in 1..Len(ts) : ts[j].Index = i /\ ts[j].Checked = c
                  /\ \A m \in 1..Len(nm["p1"].notes) :
                        MarkerFlags(nm'["p1"].notes[m].Content) =
                            IF m = o
                            THEN [MarkerFlags(nm["p1"].notes[m].Content) EXCEPT ![k] = c]
                            ELSE MarkerFlags(nm["p1"].notes[m].Content)]_vars

----------------------------------------------------------------------------
(* Claims about completion toggles issued against the index                 *)

Toggled == "UpdateGlobalTaskCompletion"

\* the record of the index with this id, joined with its active folder
GlobalTask(d, taskID) == CHOOSE t \in GetGlobalTasks(d) : t.id = taskID

HasGlobalTask(d, taskID) == \E t \in GetGlobalTasks(d) : t.id = taskID

Texts(store) == {t.Text : t \in Range(GetAllTasks(store))}

\* C4: a toggle (id, c) on a record whose text equals the text of a task of
\* the owning registered store leaves that task with checked = c, and the
\* marker of that task in notes.md is c.
C4_TogglePropagates ==
    [][\A taskID \in TaskIdInputs, c \in BOOLEAN :
          (UpdateGlobalTaskCompletion(taskID, c, NoFault) /\ last'.ok /\ last'.hit # 0) =>
              LET path == last'.path
                  k    == last'.hit
              IN  /\ GetAllTasks(nm'[path])[k].Checked = c
                  /\ MarkerFlags(disk'[path].file)[k] = c]_vars

\* C5: a toggle (id, c) on a record whose text matches no task of the owning
\* store sets the record's completed flag to c, returns no error and leaves
\* the store's collection and notes.md unchanged.
C5_ToggleWithoutMatch ==
    [][\A taskID \in TaskIdInputs, c \in BOOLEAN :
          (/\ UpdateGlobalTaskCompletion(taskID, c, NoFault)
           /\ HasGlobalTask(db, taskID)
           /\ GlobalTask(db, taskID).content \notin
                 Texts(nm[GlobalTask(db, taskID).folder_path])) =>
              /\ last'.ok
              /\ HasGlobalTask(db', taskID)
              /\ GlobalTask(db', taskID).completed = c
              /\ nm' = nm
              /\ disk' = disk]_vars

\* C5 witness: a toggle succeeded on a record of the registered project whose
\* text is the text of no task the store holds (the store holds other tasks),
\* and the record is completed.
C5_Witness ==
    /\ last.op = Toggled /\ last.ok /\ last.hit = 0
    /\ last.path \in noteManagers
    /\ GetAllTasks(nm["p1"]) # <<>>
    /\ \E t \in db.tasks : /\ t.id = last.id
                           /\ t.completed
                           /\ t.content \notin Texts(nm["p1"])

\* C6: after successive successful toggles of the same record, the store
\* registered and nothing else happening in between, the checked flag of the
\* mirrored task equals the completed flag last written to the record.
C6_RepeatedTogglesMirror ==
    [][\A taskID \in TaskIdInputs, c \in BOOLEAN :
          (/\ UpdateGlobalTaskCompletion(taskID, c, NoFault) /\ last'.ok
           /\ last.op = Toggled /\ last.ok /\ last.id = taskID /\ last.hit # 0) =>
              GetAllTasks(nm'[last.path])[last.hit].Checked = c]_vars

----------------------------------------------------------------------------
(* Claims about syncs and scheduled ticks                                   *)

FolderRow(d, folderID) == {f \in d.folders : f.id = folderID}

\* C7: when SyncFolderTasks fails at any statement, the rows of the project
\* and its last-scan time are what they were before the call, and while the
\* transaction is open every reader still sees them: no partial state can
\* be observed.
C7_FailedSyncChangesNothing ==
    (tx.open \/ (last.op = "SyncFolderTasks" /\ ~last.ok)) =>
        /\ FolderTasks(db, tx.folderID) = FolderTasks(tx.before, tx.folderID)
        /\ FolderRow(db, tx.folderID) = FolderRow(tx.before, tx.folderID)

\* C7 witness: SyncFolderTasks failed after the project's two old rows were
\* deleted and a new one inserted in the transaction; the last scan is not
\* recent and the store's tasks differ from the rows.
C7_Witness ==
    /\ last.op = "SyncFolderTasks" /\ ~last.ok
    /\ ~tx.open /\ tx.pc = "insert" /\ tx.i = 1
    /\ Cardinality(FolderTasks(tx.before, tx.folderID)) = 2
    /\ FolderTasks(tx.w, tx.folderID) # FolderTasks(tx.before, tx.folderID)
    /\ \E f \in FolderRow(db, tx.folderID) : f.scan_age > 0

\* the index rows of folderID are exactly the tasks, in order
RowsMirror(d, folderID, tasks) ==
    /\ Cardinality(FolderTasks(d, folderID)) = Len(tasks)
    /\ {t.line_number : t \in FolderTasks(d, folderID)} = 0..(Len(tasks) - 1)
    /\ FolderTaskList(d, folderID) =
           [k \in 1..Len(tasks) |-> [content   |-> tasks[k].Text,
                                     completed |-> tasks[k].Checked]]

\* C8: after a successful sync of a project the index holds exactly one
\* record per task of the store's snapshot, with content = text, completed =
\* checked and line_number = position in getAllTasks order, and the project's
\* last-sync time is the time of that sync.
C8_SyncMirrorsSnapshot ==
    \A id \in last.synced :
        \E f \in db.folders :
            /\ f.id = id
            /\ RowsMirror(db, id, GetAllTasks(nm[f.path]))
            /\ f.scan_age = 0

C8_Witness ==
    /\ last.op = "Tick" /\ last.synced # {}
    /\ Cardinality(db.tasks) = 2
    /\ \E t \in db.tasks : t.completed /\ t.line_number = 1

\* C9: a tick that finds the folder or the notes.md of a registered, synced
\* project missing stages and removes the project: it is no longer among the
\* active folders and the index holds no record of it.
C9_TickRemovesMissingProject ==
    [][Tick(NoFault) =>
          \A f \in ActiveFolderSet(db) :
              (~disk[f.path].dirExists \/ ~disk[f.path].fileExists) =>
                  /\ f.id \in last'.staged
                  /\ \A g \in ActiveFolderSet(db') : g.path # f.path /\ g.id # f.id
                  /\ FolderTasks(db', f.id) = {}]_vars

\* C9 witness: a tick removed the registered project, whose folder exists but
\* whose notes.md is gone, after two tasks had been synced.
C9_Witness ==
    /\ last.op = "Tick" /\ last.removed # {}
    /\ "p1" \in noteManagers
    /\ disk["p1"].dirExists /\ ~disk["p1"].fileExists
    /\ db.seqTasks >= 2
    /\ db.folders = {} /\ db.tasks = {}

\* C10: after a successful project-local updateTask on a registered, valid
\* project the store is dirty, and the first tick afterwards re-pulls the
\* project: the index then shows the store's tasks.
C10_TickPicksUpLocalToggle ==
    [][/\ \A i \in TaskIndexInputs(nm["p1"]), c \in BOOLEAN :
             (/\ UpdateTask("p1", i, c, TRUE) /\ last'.ok
              /\ "p1" \in noteManagers
              /\ validateFolder(disk["p1"])) => HasChanges(nm'["p1"])
       /\ (/\ last.op = "UpdateTask" /\ last.ok
           /\ Tick(NoFault)
           /\ "p1" \in noteManagers
           /\ validateFolder(disk["p1"])) =>
              \A f \in ActiveFolderSet(db') :
                  f.path = "p1" => RowsMirror(db', f.id, GetAllTasks(nm'["p1"]))]_vars

----------------------------------------------------------------------------
(* Claims about the index converging to the store                           *)

\* the project is registered, active in the index and valid on disk
LiveRegistered ==
    /\ "p1" \in noteManagers
    /\ \E f \in ActiveFolderSet(db) : f.path = "p1"
    /\ disk["p1"].dirExists /\ disk["p1"].fileExists

\* the index holds exactly the store's current tasks of the project
LiveMirror ==
    \A f \in ActiveFolderSet(db) :
        f.path = "p1" => RowsMirror(db, f.id, GetAllTasks(nm["p1"]))

\* C11: if the project stays registered and valid and from some point on
\* only ticks happen (no mutation, no toggle), then under fair ticks the
\* index eventually holds exactly the store's current task list and keeps
\* holding it.
C11_IndexConverges ==
    <>[](LiveRegistered /\ last.op = "Tick") => <>[]LiveMirror

\* C11 witness: a tick re-pulled the registered project whose store had no
\* unsaved change (the last sync had aged), and the index, which holds a
\* completed record, mirrors the store.
C11_Witness ==
    /\ last.op = "Tick" /\ last.synced # {}
    /\ LiveRegistered /\ LiveMirror
    /\ ~HasChanges(nm["p1"])
    /\ \E t \in db.tasks : t.completed /\ t.line_number = 0

----------------------------------------------------------------------------
(* Claims about registration                                                *)

Registered == last.op = "RegisterFolder" /\ last.ok

\* the path has an active row, and its store is in the path-to-store map
ActiveAndMapped(path) ==
    /\ \E f \in ActiveFolderSet(db) : f.path = path
    /\ path \in noteManagers

C13_RegistrationIsIdempotent ==
    [][\A p \in Paths, fault \in {NoFault, Fault("sync", 0)} :
          RegisterFolder(p, fault) =>
              LET pre  == FolderByPath(db, p)
                  post == FolderByPath(db', p)
              IN  /\ Cardinality(post) = 1
                  /\ \A f \in post : /\ f.active
                                     /\ f.id = last'.id
                                     /\ \A g \in pre : g.id = f.id
                  /\ pre # {} => Cardinality(db'.folders) = Cardinality(db.folders)]_vars

\* C13 witness: a registration found the path's row inactive; afterwards
\* that row is active and is the only row of the path, next to the row of
\* the other project.
C13_Witness ==
    /\ Registered /\ last.found = "inactive"
    /\ FolderByPath(db, last.path) =
          {f \in ActiveFolderSet(db) : f.id = last.id}
    /\ Cardinality(FolderByPath(db, last.path)) = 1
    /\ Cardinality(db.folders) = 2

\* C14: when the index write of a registration fails (the insert of the
\* path's row, or the reactivation of its inactive row), RegisterFolder
\* returns an error and changes nothing: the store is not added to the map
\* and neither rows nor stores nor files change.
C14_FailedRegistrationChangesNothing ==
    [][\A p \in Paths :
          (RegisterFolder(p, Fault("register", 0)) /\ RowState(db, p) # "active") =>
              /\ ~last'.ok
              /\ noteManagers' = noteManagers
              /\ db' = db
              /\ nm' = nm /\ disk' = disk]_vars

\* C14 witness: the registration of the second project failed; it has no row
\* and is not in the map, while the first project is registered and active.
C14_Witness ==
    /\ last.op = "RegisterFolder" /\ ~last.ok /\ last.path = "p2"
    /\ "p2" \notin noteManagers
    /\ FolderByPath(db, "p2") = {}
    /\ ActiveAndMapped("p1")

----------------------------------------------------------------------------
(* Claims about whole passes                                                *)

\* what a pass over the index d0 owes every project other than failed: a
\* project missing on disk is removed, a project due for a sync is synced
PassIsolates(d0, force, failed) ==
    \A f \in ActiveFolderSet(d0) :
        f.id # failed =>
            IF ~disk[f.path].dirExists \/ ~disk[f.path].fileExists
            THEN /\ f.id \in last'.removed
                 /\ \A g \in db'.folders : g.id # f.id
                 /\ FolderTasks(db', f.id) = {}
            ELSE (/\ f.path \in noteManagers
                  /\ force \/ HasChanges(nm[f.path]) \/ IsStale(f)) =>
                     /\ f.id \in last'.synced
                     /\ RowsMirror(db', f.id, GetAllTasks(nm[f.path]))

\* C15: when the sync of one project fails in a tick or in a forced sync,
\* the pass goes on: every other active project is validated and synced
\* under the same rules, staged projects are removed, and the pass (so
\* ForceSync) returns success.
C15_SyncFailureIsIsolated ==
    [][\A failed \in 1..db.seqFolders :
          /\ Tick(Fault("sync", failed)) =>
                last'.ok /\ PassIsolates(AgeFolders(db), FALSE, failed)
          /\ ForceSync(Fault("sync", failed)) =>
                last'.ok /\ PassIsolates(db, TRUE, failed)]_vars

\* C15 witness: a forced sync returned success with one sync failing: both
\* projects are registered, active and valid, one of them was synced and
\* holds a record, the other was not and holds none for its task.
C15_Witness ==
    /\ last.op = "ForceSync" /\ last.ok /\ faults = 1
    /\ noteManagers = Paths
    /\ \A p \in Paths : /\ \E f \in ActiveFolderSet(db) : f.path = p
                        /\ validateFolder(disk[p])
                        /\ Len(GetAllTasks(nm[p])) = 1
    /\ \E f, g \in ActiveFolderSet(db) :
          /\ f.path = "p1" /\ g.path = "p2"
          /\ last.synced = {g.id}
          /\ FolderTasks(db, f.id) = {}
          /\ Cardinality(FolderTasks(db, g.id)) = 1

----------------------------------------------------------------------------
(* Claims about the store's dirty flag and its rejected calls               *)

StoreOps == {"AddNote", "UpdateNote", "DeleteNote", "UpdateTask"}

NoteInRange(store, index) == index >= 0 /\ index < Len(store.notes)

TaskCarried(store, taskIndex) ==
    \E t \in Range(GetAllTasks(store)) : t.Index = taskIndex

\* C17: HasChanges is true exactly when a mutation was applied since the
\* last successful write of notes.md: a mutation whose write succeeded
\* leaves it false, a mutation whose write failed leaves it true, a rejected
\* call and every other step leave it as it was, and while it is false
\* notes.md holds the rendered collection.
C17_DirtyIffUnsavedMutation ==
    [][LET store == nm["p1"]
           dirty == HasChanges(nm'["p1"])
           ioOk  == faults' = faults
       IN  /\ last'.op = "AddNote" => dirty = ~ioOk
           /\ last'.op = "UpdateNote" =>
                 \A content \in SyncContents, index \in 0..Len(store.notes) :
                     UpdateNote("p1", index, <<>>, content, ioOk) =>
                         dirty = IF NoteInRange(store, index) THEN ~ioOk
                                 ELSE HasChanges(store)
           /\ last'.op = "DeleteNote" =>
                 \A index \in 0..Len(store.notes) :
                     DeleteNote("p1", index, ioOk) =>
                         dirty = IF NoteInRange(store, index) THEN ~ioOk
                                 ELSE HasChanges(store)
           /\ last'.op = "UpdateTask" =>
                 \A taskIndex \in TaskIndexInputs(store), checked \in BOOLEAN :
                     UpdateTask("p1", taskIndex, checked, ioOk) =>
                         dirty = IF TaskCarried(store, taskIndex) THEN ~ioOk
                                 ELSE HasChanges(store)
           /\ (last'.op \notin StoreOps /\ last'.op # Toggled) =>
                 dirty = HasChanges(store)
           /\ ~dirty => disk'["p1"].file = JoinRendered(nm'["p1"].notes)]_vars

\* C17 witness: the write of a mutation failed: the store is dirty and
\* notes.md does not hold the collection, which has a note.
C17_Witness ==
    /\ last.op \in StoreOps /\ ~last.ok /\ faults = 1
    /\ HasChanges(nm["p1"])
    /\ nm["p1"].notes # <<>>
    /\ disk["p1"].file # JoinRendered(nm["p1"].notes)

\* C18: UpdateNote and DeleteNote with a note index outside 0..len-1, and
\* UpdateTask with an index no task carries, return an error and leave the
\* collection, the task indices, the dirty flag and notes.md unchanged.
C18_RejectedCallsChangeNothing ==
    [][LET store == nm["p1"]
           same  == ~last'.ok /\ nm' = nm /\ disk' = disk
       IN  /\ last'.op = "UpdateNote" =>
                 \A title \in StoreTitles, content \in StoreContents,
                    index \in -1..Len(store.notes) :
                     (/\ ~NoteInRange(store, index)
                      /\ UpdateNote("p1", index, title, content, TRUE)) => same
           /\ last'.op = "DeleteNote" =>
                 \A index \in -1..Len(store.notes) :
                     (/\ ~NoteInRange(store, index)
                      /\ DeleteNote("p1", index, TRUE)) => same
           /\ last'.op = "UpdateTask" =>
                 \A taskIndex \in TaskIndexInputs(store), checked \in BOOLEAN :
                     (/\ ~TaskCarried(store, taskIndex)
                      /\ UpdateTask("p1", taskIndex, checked, TRUE)) => same]_vars

\* C18 witness: a call on a store of two notes that holds tasks was
\* rejected; the store is not dirty and notes.md holds its collection.
C18_Witness ==
    /\ last.op \in {"UpdateNote", "DeleteNote", "UpdateTask"} /\ ~last.ok
    /\ Len(nm["p1"].notes) = 2
    /\ GetAllTasks(nm["p1"]) # <<>>
    /\ ~HasChanges(nm["p1"])
    /\ disk["p1"].file = JoinRendered(nm["p1"].notes)

\* the id identifies a Global Task Record of an active project
IdentifiesActiveTask(d, taskID) ==
    \E t \in d.tasks, f \in d.folders :
        t.id = taskID /\ t.folder_id = f.id /\ f.active

\* C19: UpdateGlobalTaskCompletion with an id that identifies no Global Task
\* Record of an active project returns an error and changes neither tasks.db
\* nor any project store or notes.md.
C19_UnknownIdChangesNothing ==
    [][last'.op = Toggled =>
          \A taskID \in TaskIdInputs, c \in BOOLEAN :
              (/\ ~IdentifiesActiveTask(db, taskID)
               /\ UpdateGlobalTaskCompletion(taskID, c, NoFault)) =>
                  /\ ~last'.ok
                  /\ db' = db /\ nm' = nm /\ disk' = disk]_vars

\* C19 witness: a toggle was refused without any injected failure while
\* tasks.db holds task rows, all of them of an inactive project whose store
\* still carries the tasks.
C19_Witness ==
    /\ last.op = Toggled /\ ~last.ok /\ faults = 0
    /\ db.tasks # {}
    /\ \A t \in db.tasks : ~IdentifiesActiveTask(db, t.id)
    /\ "p1" \in noteManagers
    /\ GetAllTasks(nm["p1"]) # <<>>

\* the callers inside AddNote or UpdateTask, between taking the lock and
\* releasing it
Mutating ==
    {c \in Callers : /\ calls[c].op \in {"AddNote", "UpdateTask"}
                     /\ calls[c].pc \in {"indices", "prepend", "text", "checked",
                                         "save", "unlock"}}

\* the callers inside GetAllTasks, between taking the lock and releasing it
Reading ==
    {c \in Callers : calls[c].op = "GetAllTasks" /\ calls[c].pc \in {"copy", "runlock"}}

\* C20: under any interleaving of concurrent callers of one store, at most
\* one mutation is inside its mutate-then-persist sequence, GetAllTasks never
\* runs while a mutation is in progress, and every snapshot GetAllTasks
\* returns is the task list the store held before or after a mutation, never
\* a partially applied one.
C20_MutationsAreSerialised ==
    /\ Cardinality(Mutating) <= 1
    /\ Mutating # {} => Reading = {}
    /\ \A c \in Callers :
          (calls[c].op = "GetAllTasks" /\ calls[c].pc = "done") =>
              calls[c].snapshot \in versions

\* C20 witness: one caller is inside a mutation that has changed the store,
\* a second waits for the lock, and a third has returned a snapshot with a
\* task in it that is no longer the store's task list.
C20_Witness ==
    \E a, b, c \in Callers :
        /\ a \in Mutating /\ calls[a].pc \in {"save", "unlock"} /\ ~calls[a].err
        /\ calls[b].pc \in {"lock", "rlock"}
        /\ calls[c].op = "GetAllTasks" /\ calls[c].pc = "done"
        /\ calls[c].snapshot # <<>>
        /\ calls[c].snapshot # GetAllTasks(nm["p1"])

\* the positions at which a goroutine takes a store's lock, reads a store
\* under it, or runs an index transaction
ProjectIO ==
    {"has_rlock", "has_read", "has_runlock", "nm_rlock", "read", "nm_runlock",
     "nm_lock", "mutate", "fs_lock", "write", "fs_unlock", "nm_unlock", "db_sync"}

\* C21: the synchronizer never holds the lock of its path-to-store map
\* while it acquires a store's lock, reads a store's tasks or runs an index
\* transaction.
C21_MapLockNotHeldDuringProjectIO ==
    \A g \in Goroutines : Holds(trsMu, g) => ops[g].pc \notin ProjectIO

\* the positions of a goroutine inside a store-local step: a store's lock is
\* being taken, is held, or is being released
StoreLocal ==
    {"has_rlock", "has_read", "has_runlock", "nm_rlock", "read", "nm_runlock",
     "nm_lock", "mutate", "fs_lock", "write", "fs_unlock", "nm_unlock"}

\* C22: in every operation that touches both a store and the index (the
\* sync of a project, the global toggle), the store-local step is completed
\* and the store's lock released before the index write of that operation
\* begins: no goroutine is in a store-local step after its index write, and
\* none holds the store's lock at its index write.
C22_StoreStepBeforeIndexWrite ==
    \A g \in Goroutines :
        /\ ops[g].pc \in StoreLocal => ~ops[g].indexWritten
        /\ ops[g].pc \in {"db_sync", "db_update"} => ~Holds(mu, g)

\* the goroutines g waits for, directly or through others that wait
WaitChain(g) ==
    LET more(S) == S \cup UNION {WaitsFor(h) : h \in S}
    IN  more(more(more(more(WaitsFor(g)))))

\* C23: no deadlock is reachable under any interleaving of the tick, forced
\* syncs, registrations, toggles and project-local mutations: no goroutine
\* waits, directly or through others, for itself; every lock is held by an
\* operation in progress; and an operation in progress that waits for
\* nobody can take its next statement.
C23_NoCircularWait ==
    \A g \in Goroutines :
        /\ g \notin WaitChain(g)
        /\ g \notin InFlight => ~Holds(trsMu, g) /\ ~Holds(mu, g) /\ ~Holds(fsMu, g)
        /\ (g \in InFlight /\ WaitsFor(g) = {}) => ENABLED GoStep(g)

\* C23 witness: a goroutine at trs.mu.RLock() waits for a registration
\* pending at trs.mu.Lock(), which waits for a pass that holds the map lock
\* and is itself free to run.
C23_Witness ==
    \E a, b, c \in Goroutines :
        /\ ops[a].pc = "trs_rlock" /\ b \in WaitsFor(a)
        /\ ops[b].pc = "trs_lock" /\ c \in WaitsFor(b)
        /\ Holds(trsMu, c) /\ WaitsFor(c) = {}
        /\ Operation[c] \in {"Tick", "ForceSync"}

\* C24: after Close has returned, no scheduled tick begins a new pass and
\* no further write reaches the index.
C24_NothingRunsAfterShutdown ==
    [][svc.returned => (db' = db /\ ~(svc.loop # "pass" /\ svc'.loop = "pass"))]_vars

\* C25: a tick that is in flight when Close is called runs to completion
\* with the index still usable: the database is never closed while a pass is
\* in progress.
C25_InFlightTickFinishesBeforeClose ==
    svc.loop = "pass" => ~svc.dbClosed

\* C26: GetGlobalTasks returns exactly the task rows of active projects,
\* each once, ordered by project path, then incomplete before complete, then
\* most recently updated first, and Total is the number of rows returned.
C26_GlobalTasksOrdered ==
    query.pc = "returned" =>
        LET tasks  == query.resp.Tasks
            active == {f.id : f \in {f \in query.db.folders : f.active}}
            path(t) == (CHOOSE f \in query.db.folders : f.id = t.folder_id).path
        IN  /\ {t.id : t \in Range(tasks)} =
                  {t.id : t \in {t \in query.db.tasks : t.folder_id \in active}}
            /\ \A i, j \in 1..Len(tasks) : i # j => tasks[i].id # tasks[j].id
            /\ \A i \in 1..Len(tasks) :
                  \E t \in query.db.tasks :
                      /\ t.id = tasks[i].id
                      /\ tasks[i].content = t.content
                      /\ tasks[i].completed = t.completed
                      /\ tasks[i].folder_path = path(t)
            /\ \A i, j \in 1..Len(tasks) :
                  i < j =>
                      /\ tasks[i].folder_path = "p2" => tasks[j].folder_path = "p2"
                      /\ tasks[i].folder_path = tasks[j].folder_path =>
                            /\ tasks[i].completed => tasks[j].completed
                            /\ tasks[i].completed = tasks[j].completed =>
                                  query.last_updated[tasks[i].id] >=
                                      query.last_updated[tasks[j].id]
            /\ query.resp.Total = Len(tasks)

\* C26 witness: of three task rows one belongs to the inactive project and is
\* left out; the two returned agree on project and completion and the one
\* written later comes first.
C26_Witness ==
    /\ query.pc = "returned"
    /\ query.resp.Total = 2
    /\ Cardinality(query.db.tasks) = 3
    /\ \E f \in query.db.folders : ~f.active
    /\ query.resp.Tasks[1].completed = query.resp.Tasks[2].completed
    /\ query.last_updated[query.resp.Tasks[1].id] > query.last_updated[query.resp.Tasks[2].id]

\* the same notes in the same order by title, content and the tasks' literal
\* text and checked flag
SameCollection(a, b) ==
    /\ Len(a) = Len(b)
    /\ \A i \in 1..Len(a) :
          /\ a[i].Title = b[i].Title
          /\ a[i].Content = b[i].Content
          /\ Len(a[i].Tasks) = Len(b[i].Tasks)
          /\ \A k \in 1..Len(a[i].Tasks) :
                /\ a[i].Tasks[k].Text = b[i].Tasks[k].Text
                /\ a[i].Tasks[k].Checked = b[i].Tasks[k].Checked

WellFormed(content) ==
    /\ content = <<>> \/ (Head(content) \notin Whitespace
                          /\ content[Len(content)] \notin Whitespace)
    /\ \A i \in 1..Len(content) : content[i] # "SEP"

Markers(c) ==
    {m \in 1..Len(c) :
        /\ m + 2 <= Len(c)
        /\ c[m] = "["
        /\ c[m + 1] = " " \/ c[m + 1] = "x" \/ c[m + 1] = "X"
        /\ c[m + 2] = "]"}

\* C28: parsing note content yields one task per checkbox marker in order of
\* appearance, checked exactly for x and X, with the literal text running
\* from the marker to the end of its line without the white space at its end;
\* parsing the same content twice yields the same records in the same order.
C28_OneTaskPerMarker ==
    \A i \in 1..Len(nm["p1"].notes) :
        LET c  == nm["p1"].notes[i].Content
            ts == nm["p1"].notes[i].Tasks
        IN  /\ Len(ts) = Cardinality(Markers(c))
            /\ \A k \in 1..Len(ts) :
                  \E m \in Markers(c) :
                      /\ Cardinality({n \in Markers(c) : n < m}) = k - 1
                      /\ ts[k].Checked <=> c[m + 1] \in {"x", "X"}
                      /\ \E r \in (m + 2)..Len(c) :
                            /\ ts[k].Text = [j \in 1..(r - m + 1) |-> c[m + j - 1]]
                            /\ \A j \in m..r : c[j] # "\n"
                            /\ c[r] # " "
                            /\ \E e \in r..Len(c) :
                                  /\ \A j \in (r + 1)..e : c[j] = " "
                                  /\ e = Len(c) \/ c[e + 1] = "\n"
            /\ \A j \in 1..Len(nm["p1"].notes) :
                  nm["p1"].notes[j].Content = c =>
                      /\ Len(nm["p1"].notes[j].Tasks) = Len(ts)
                      /\ \A k \in 1..Len(ts) :
                            /\ nm["p1"].notes[j].Tasks[k].Text = ts[k].Text
                            /\ nm["p1"].notes[j].Tasks[k].Checked = ts[k].Checked

\* C28 witness: the same content parsed twice, holding an unchecked marker
\* followed on the same line by a checked one.
C28_Witness ==
    /\ Len(nm["p1"].notes) = 2
    /\ nm["p1"].notes[1].Content = nm["p1"].notes[2].Content
    /\ Len(nm["p1"].notes[1].Tasks) = 2
    /\ ~nm["p1"].notes[1].Tasks[1].Checked
    /\ nm["p1"].notes[1].Tasks[2].Checked
\* C29: in a scheduled tick a valid active project whose store reports no
\* unsaved changes and whose last scan is not older than the staleness
\* threshold is not re-synced: its rows, ids included, and its last scan are
\* as before the tick; a project that is dirty or past the threshold is
\* re-synced (when the index operations of the tick succeed).
C29_TickSkipsCleanFreshProjects ==
    [][last'.op = "Tick" =>
          \A f \in ActiveFolderSet(db) :
              (/\ disk[f.path].dirExists /\ disk[f.path].fileExists
               /\ f.path \in noteManagers) =>
                  \E aged \in ActiveFolderSet(AgeFolders(db)) :
                      /\ aged.id = f.id
                      /\ (~nm[f.path].needsSave /\ aged.scan_age <= StaleSeconds) =>
                            /\ f.id \notin last'.synced
                            /\ FolderTasks(db', f.id) = FolderTasks(db, f.id)
                            /\ aged \in ActiveFolderSet(db')
                      /\ ((nm[f.path].needsSave \/ aged.scan_age > StaleSeconds)
                            /\ faults' = faults) =>
                            /\ f.id \in last'.synced
                            /\ RowsMirror(db', f.id, GetAllTasks(nm'[f.path]))
                            /\ \E g \in ActiveFolderSet(db') :
                                  g.id = f.id /\ g.scan_age = 0]_vars

\* C29 witness: a tick left alone the valid project, whose store is clean
\* and whose last scan is one tick old, although the store holds a task
\* that the index has no row for.
C29_Witness ==
    /\ last.op = "Tick" /\ last.ok /\ last.synced = {} /\ last.staged = {}
    /\ "p1" \in noteManagers
    /\ disk["p1"].dirExists /\ disk["p1"].fileExists
    /\ ~nm["p1"].needsSave
    /\ \E f \in ActiveFolderSet(db) :
          /\ f.path = "p1"
          /\ f.scan_age = TickSeconds
          /\ Cardinality(FolderTasks(db, f.id)) < Len(GetAllTasks(nm["p1"]))
\* C30: a scheduled or forced pass removes a project only if the project's
\* directory or its note file did not exist at the moment the pass validated
\* it; a project whose directory and note file both exist at validation is
\* not staged or removed by that pass, and a project found invalid is not
\* synced in that pass.
C30_PassRemovesOnlyInvalidProjects ==
    [][\A g \in Goroutines :
          Operation[g] \in {"Tick", "ForceSync"} =>
              \* the validation of the next folder of the pass
              /\ (ops[g].pc = "validate" /\ ops'[g] # ops[g] /\ ops[g].folders # <<>>) =>
                    LET folder == Head(ops[g].folders)
                    IN  IF disk[folder.path].dirExists /\ disk[folder.path].fileExists
                        THEN ops'[g].staged = ops[g].staged /\ folder.id \notin ops[g].staged
                        ELSE /\ ops'[g].staged = ops[g].staged \cup {folder.id}
                             /\ ops'[g].pc = "validate"
                             /\ \A rest \in Range(ops'[g].folders) : rest.id # folder.id
              \* nothing else stages
              /\ (ops[g].pc # "validate" /\ ops'[g].pc # "idle") =>
                    ops'[g].staged = ops[g].staged
              \* the pass syncs no folder it staged
              /\ ops[g].pc \in {"has_rlock", "has_read", "has_runlock", "nm_rlock",
                                "read", "nm_runlock", "db_sync"} =>
                    ops[g].id \notin ops[g].staged
              \* the removals of the pass are the folders it staged
              /\ (ops[g].pc = "remove" /\ ops'[g].pc # "remove") =>
                    /\ {f.id : f \in db.folders} \ {f.id : f \in db'.folders}
                          \subseteq ops[g].staged
                    /\ \A f \in db.folders :
                          f.id \notin ops[g].staged =>
                              f \in db'.folders /\ FolderTasks(db', f.id) = FolderTasks(db, f.id)]_vars

\* C30 witness: a pass has removed the project it found without its note
\* file; the note file exists again by now, written by a note added after
\* the validation.
C30_Witness ==
    \E g \in Goroutines :
        /\ Operation[g] \in {"Tick", "ForceSync"}
        /\ ops[g].pc = "trs_runlock"
        /\ ops[g].staged # {}
        /\ \A f \in db.folders : f.id \notin ops[g].staged
        /\ disk["p1"].dirExists /\ disk["p1"].fileExists
----------------------------------------------------------------------------
(* Claims about the task indices of a store                                 *)

\* the indices carried by the tasks of the store in note order, then scan
\* order
IndexList(s) ==
    LET count(i) == Len(s.notes[i].Tasks)
        RECURSIVE upto(_)
        upto(i) == IF i = 0 THEN <<>>
                   ELSE upto(i - 1) \o [k \in 1..count(i) |-> s.notes[i].Tasks[k].Index]
    IN  upto(Len(s.notes))

\* C31: after a load and after every successful deleteNote, the k-th task in
\* note order then scan order, counted from 0, carries index k.
C31_SequentialAfterLoadAndDelete ==
    (last.op = "NewNoteManager" \/ (last.op = "DeleteNote" /\ last.ok)) =>
        \A k \in 1..Len(IndexList(nm["p1"])) : IndexList(nm["p1"])[k] = k - 1

\* C31 witness: a deleteNote left two notes holding three tasks.
C31_Witness ==
    /\ last.op = "DeleteNote" /\ last.ok
    /\ Len(nm["p1"].notes) = 2
    /\ Len(IndexList(nm["p1"])) = 3
\* the number of tasks of the notes before the note at 0-based position p
TasksBefore(s, p) == Len(IndexList([s EXCEPT !.notes = SubSeq(s.notes, 1, p)]))

\* C32: when updateNote changes the task count of the note at position p,
\* the tasks of the notes before p keep their indices, and the tasks of note
\* p and of all later notes are renumbered sequentially starting at the
\* number of tasks contained in the notes before p.
C32_UpdateNoteRenumbersFromOffset ==
    [][\A p \in 0..(MaxIndexNotes - 1), content \in IndexContents :
          (/\ UpdateNote("p1", p, <<>>, content, TRUE)
           /\ last'.ok
           /\ Len(nm'["p1"].notes[p + 1].Tasks) # Len(nm["p1"].notes[p + 1].Tasks)) =>
              LET before == TasksBefore(nm["p1"], p)
                  old    == IndexList(nm["p1"])
                  new    == IndexList(nm'["p1"])
              IN  /\ \A k \in 1..before : new[k] = old[k]
                  /\ \A k \in (before + 1)..Len(new) : new[k] = k - 1]_vars
\* C33: an updateNote that leaves the task count of the updated note
\* unchanged leaves the index of every task of the collection unchanged,
\* the tasks of the updated note included.
C33_SameCountKeepsIndices ==
    [][\A p \in 0..(MaxIndexNotes - 1), content \in IndexContents :
          (/\ UpdateNote("p1", p, <<>>, content, TRUE)
           /\ last'.ok
           /\ Len(nm'["p1"].notes[p + 1].Tasks) = Len(nm["p1"].notes[p + 1].Tasks)) =>
              IndexList(nm'["p1"]) = IndexList(nm["p1"])]_vars
----------------------------------------------------------------------------
(* Claims about record ids and the toggle under concurrent syncs            *)

TaskIds(d) == {t.id : t \in d.tasks}

\* C34: a record id read before a sync of its project identifies no record
\* after that sync: ids are never reused, so a toggle with a stale id
\* returns not-found and changes no record and no store.
C34_StaleIdsAreNeverReused ==
    [][/\ \A id \in TaskIds(db) : id <= db.seqTasks
       /\ db'.seqTasks >= db.seqTasks
       /\ \A id \in TaskIds(db') \ TaskIds(db) : id > db.seqTasks
       /\ \A folderID \in last'.synced :
             {t.id : t \in FolderTasks(db, folderID)} \cap TaskIds(db') = {}
       /\ last'.op = "UpdateGlobalTaskCompletion" =>
             \A taskID \in (1..db.seqTasks) \ TaskIds(db), completed \in BOOLEAN :
                 UpdateGlobalTaskCompletion(taskID, completed, NoFault) =>
                     ~last'.ok /\ db' = db /\ nm' = nm /\ disk' = disk]_vars

\* C34 witness: a forced sync has replaced the two records of the project:
\* ids 1 and 2 are retired and the records of the same two tasks carry new
\* ids.
C34_Witness ==
    /\ last.op = "ForceSync" /\ last.ok /\ last.synced # {}
    /\ Cardinality(db.tasks) = 2
    /\ \A id \in TaskIds(db) : id > 2
    /\ Len(GetAllTasks(nm["p1"])) = 2
\* C35: under any interleaving with a sync of the same project, a toggle
\* reports success only if the call itself set completed on an existing
\* record: when the call passes its update of the index without an error
\* (from there it can only return success), the record it resolved exists
\* and carries the flag.
C35_SuccessMeansRecordWasSet ==
    [][\A g \in Goroutines :
          (/\ Operation[g] = "UpdateGlobalTaskCompletion"
           /\ ops[g].pc = "db_update" /\ ops'[g].pc = "trs_rlock") =>
              /\ ops[g].id \in TaskIds(db)
              /\ \E t \in db'.tasks :
                    t.id = ops[g].id /\ t.completed = ops[g].completed]_vars
\* C36: under any interleaving with addNote, updateNote and deleteNote, the
\* reverse propagation of a toggle changes the checked flag only of a store
\* task whose literal text equals the record's content at the moment the
\* store is modified; it never toggles a task with a different text.
C36_ReverseTogglesOnlyMatchingText ==
    [][\A g \in Goroutines :
          (/\ Operation[g] = "UpdateGlobalTaskCompletion"
           /\ ops[g].pc = "mutate" /\ ops'[g].pc # "mutate") =>
              /\ Len(GetAllTasks(nm'["p1"])) = Len(GetAllTasks(nm["p1"]))
              /\ \A k \in 1..Len(GetAllTasks(nm["p1"])) :
                    GetAllTasks(nm'["p1"])[k].Checked # GetAllTasks(nm["p1"])[k].Checked
                        => GetAllTasks(nm["p1"])[k].Text = ops[g].content]_vars
----------------------------------------------------------------------------
(* Claims about the index under overlapping passes                          *)

\* C37: in every reachable state, concurrently running scheduled and forced
\* passes included, every record belongs to an existing project row:
\* removing a project leaves no record of it behind and no sync inserts
\* records for a project that has been removed.
C37_EveryRecordHasItsProject ==
    \A t \in db.tasks : \E f \in db.folders : f.id = t.folder_id
\* C38: when syncs of the same project overlap with each other and with
\* store mutations, the index never regresses: a sync that commits while the
\* index reflects the store's current state does not replace it with a
\* snapshot taken from the store before that state.
C38_IndexNeverRegresses ==
    [][\A g \in Goroutines :
          (/\ ops[g].pc = "db_sync" /\ ops'[g].pc # "db_sync"
           /\ \E f \in db.folders : f.id = ops[g].id
           /\ RowsMirror(db, ops[g].id, GetAllTasks(nm[ops[g].path]))) =>
              RowsMirror(db', ops[g].id, GetAllTasks(nm[ops[g].path]))]_vars
\* C39: for an active project that is valid on disk but has no store
\* registered in the running service, scheduled ticks and forced syncs leave
\* its project row, its last scan and its records unchanged.
C39_NoHandleNoChange ==
    [][(last'.op = "Tick" \/ last'.op = "ForceSync") =>
          \A f \in ActiveFolderSet(db) :
              (/\ disk[f.path].dirExists /\ disk[f.path].fileExists
               /\ f.path \notin noteManagers) =>
                  /\ FolderTasks(db', f.id) = FolderTasks(db, f.id)
                  /\ f.id \notin last'.synced \cup last'.staged \cup last'.removed
                  /\ IF last'.op = "ForceSync" THEN f \in db'.folders
                     ELSE \E aged \in AgeFolders(db).folders :
                             aged.id = f.id /\ aged \in db'.folders]_vars

\* C39 witness: a forced sync passed over the valid, active project p1,
\* which the running service holds no store of: its store has a task the
\* index has no record of, and its last scan keeps its age.
C39_Witness ==
    /\ last.op = "ForceSync" /\ last.ok /\ faults = 0
    /\ "p1" \notin noteManagers
    /\ disk["p1"].dirExists /\ disk["p1"].fileExists
    /\ Len(GetAllTasks(nm["p1"])) = 1
    /\ \E f \in ActiveFolderSet(db) :
          f.path = "p1" /\ FolderTasks(db, f.id) = {} /\ f.scan_age > 0
----------------------------------------------------------------------------
(* Claim about the note file after a mutation                               *)

\* C40: after every successful addNote, updateNote, deleteNote or
\* updateTask the note file's content is the rendering of the whole current
\* in-memory collection: all notes in collection order, joined by the
\* separator.
C40_FileIsRenderedCollection ==
    (last.op \in {"AddNote", "UpdateNote", "DeleteNote", "UpdateTask"} /\ last.ok) =>
        LET notes == nm["p1"].notes
            RECURSIVE joined(_)
            joined(k) == IF k = 0 THEN <<>>
                         ELSE IF k = 1 THEN Render(notes[1])
                         ELSE joined(k - 1) \o NoteSeparator \o Render(notes[k])
        IN  /\ disk["p1"].fileExists
            /\ disk["p1"].file = joined(Len(notes))

\* C40 witness: an updateTask succeeded on a collection of two notes and the
\* note file holds both, the separator between them.
C40_Witness ==
    /\ last.op = "UpdateTask" /\ last.ok
    /\ Len(nm["p1"].notes) = 2
    /\ \E i \in 1..Len(disk["p1"].file) : disk["p1"].file[i] = "SEP"
    /\ \E i \in 1..2 : \E k \in 1..Len(nm["p1"].notes[i].Tasks) :
          nm["p1"].notes[i].Tasks[k].Checked
====
